---- MODULE Spec2Model ----
(***************************************************************************)
(* Model of the shift-operator agent's tools.                              *)
(*                                                                         *)
(* The equipment-reading tool (tools/record-equipment-reading-tool.ts,     *)
(* kept as src/unnamed/part_000): the Equipment Range Registry, the        *)
(* Reading Evaluator, the Trend Analyzer and the Reading Store.            *)
(*                                                                         *)
(* The shift-note tools: log-shift-note (kept in src/src/mastra/index.ts   *)
(* from line 36 on), get-previous-shift-report, query-shift-status and     *)
(* generate-shift-handover-summary (the last two both kept in              *)
(* tools/query-shift-status-tool.ts): the Shift Clock, the Note Classifier,*)
(* the Note Store and the reports.                                         *)
(*                                                                         *)
(* Numbers.  Reading values and range bounds are JavaScript numbers; the   *)
(* model draws them from integers, on which the double arithmetic of the   *)
(* handlers is exact, and from the doubles a few units in the last place   *)
(* above an integer (Near), on which the sum of two bounds is rounded.     *)
(* Results the code computes by division (deviation, trend) are kept as    *)
(* exact rationals or as the non-finite outcomes NaN / Infinity that IEEE  *)
(* division gives, never truncated.                                        *)
(* An optional input (zod .optional()) is the empty tuple when omitted and *)
(* a one-element tuple when supplied.                                      *)
(*                                                                         *)
(* Time.  The wall clock counts ticks of local time from a local midnight, *)
(* TicksPerHour ticks to the hour.  A timestamp is kept as the instant it  *)
(* names: toISOString and new Date(iso) are exact inverses on the          *)
(* millisecond instants a Date can hold.                                   *)
(*                                                                         *)
(* Text.  Notes are strings; includes, toLowerCase and the regular         *)
(* expressions of the source are computed character by character.          *)
(*                                                                         *)
(* Not modelled: the reading's id, unit and operator fields and the        *)
(* reading tool's `message` text, which no branch of the handler reads     *)
(* back.                                                                   *)
(***************************************************************************)
EXTENDS Integers, Sequences, FiniteSets, TLC

VARIABLES
    equipmentReadings,      \* const equipmentReadings: EquipmentReading[]
    equipmentCustomRanges,  \* const equipmentCustomRanges: Record<string, range>
    now,                    \* the wall clock (Date.now(), new Date()), in ticks
    lastCall,               \* <<>> or <<context>>: the input of the latest tool call
    result,                 \* <<>> or <<r>>: what the latest tool call returned
    suppliedBounds,         \* history: key -> <<normalMin, normalMax>> last supplied
                            \* together by a recordEquipmentReading call
    shiftNotes,             \* const shiftNotes: ShiftNote[]
    lastNoteCall,           \* <<>> or <<c>>: the latest shift-note tool call: its
                            \* tool, its input and the clock readings it took
    noteResult,             \* <<>> or <<r>>: what that call returned
    past                    \* history: the calls completed so far, what the
                            \* latest report read and what the queries returned

vars == <<equipmentReadings, equipmentCustomRanges, now, lastCall, result, suppliedBounds,
          shiftNotes, lastNoteCall, noteResult, past>>

Undefined == <<>>
Some(v) == <<v>>

\* a ?? b
Coalesce(opt, dflt) == IF opt = Undefined THEN dflt ELSE opt[1]

\* a || b on an optional string: the empty string is falsy too
OrElse(opt, dflt) == IF opt = Undefined \/ opt[1] = "" THEN dflt ELSE opt[1]

----------------------------------------------------------------------------
(* The Shift Clock.                                                        *)

TicksPerHour == 2

\* new Date(t).getHours(): the hour of the local day that holds instant t
getHours(t) == (t \div TicksPerHour) % 24

ShiftType == {"day", "afternoon", "night"}

\* A clock whose boundary hours belong to the shift that ends there
getCurrentShiftEarlierBoundary(hour) ==
    IF hour > 6 /\ hour <= 14 THEN "day"
    ELSE IF hour > 14 /\ hour <= 22 THEN "afternoon"
    ELSE "night"

\* getCurrentShift of log-shift-note-tool.ts, given the hour its new Date() read
getCurrentShift(hour) ==
    IF hour >= 6 /\ hour < 14 THEN "day"
    ELSE IF hour >= 14 /\ hour < 22 THEN "afternoon"
    ELSE "night"

\* getCurrentShift of record-equipment-reading-tool.ts
getCurrentShiftReading(hour) ==
    IF hour >= 6 /\ hour < 14 THEN "day"
    ELSE IF hour >= 14 /\ hour < 22 THEN "afternoon"
    ELSE "night"

\* getCurrentShift of get-previous-shift-report-tool.ts
getCurrentShiftReport(hour) ==
    IF hour >= 6 /\ hour < 14 THEN "day"
    ELSE IF hour >= 14 /\ hour < 22 THEN "afternoon"
    ELSE "night"

\* getCurrentShift of query-shift-status-tool.ts
getCurrentShiftQuery(hour) ==
    IF hour >= 6 /\ hour < 14 THEN "day"
    ELSE IF hour >= 14 /\ hour < 22 THEN "afternoon"
    ELSE "night"

\* getCurrentShift of the handover-summary tool
getCurrentShiftSummary(hour) ==
    IF hour >= 6 /\ hour < 14 THEN "day"
    ELSE IF hour >= 14 /\ hour < 22 THEN "afternoon"
    ELSE "night"

----------------------------------------------------------------------------
(* The Equipment Range Registry and the Reading Evaluator.                 *)

Range(mn, mx, cmn, cmx, u) ==
    [min |-> mn, max |-> mx, criticalMin |-> cmn, criticalMax |-> cmx, uom |-> u]

\* The table's keys are written as in the source.  "degC" stands for the
\* source's degree-Celsius string.
defaultRanges ==
    [k \in {"pump-pressure", "pump-flow", "pump-temperature", "pump-vibration",
            "pump-current",
            "compressor-pressure", "compressor-temperature", "compressor-vibration",
            "compressor-rpm",
            "heater-temperature", "heater-pressure", "heater-flow",
            "finfan-temperature", "finfan-pressure", "finfan-rpm",
            "reactor-pressure", "reactor-temperature", "reactor-level",
            "tower-pressure", "tower-temperature", "tower-level",
            "exchanger-temperature", "exchanger-pressure", "exchanger-flow"} |->
        CASE k = "pump-pressure"          -> Range(50, 150, 30, 180, "PSI")
          [] k = "pump-flow"              -> Range(100, 500, 50, 600, "GPM")
          [] k = "pump-temperature"       -> Range(20, 80, 10, 100, "degC")
          [] k = "pump-vibration"         -> Range(0, 5, 0, 10, "mm/s")
          [] k = "pump-current"           -> Range(10, 50, 5, 60, "A")
          [] k = "compressor-pressure"    -> Range(100, 300, 80, 350, "PSI")
          [] k = "compressor-temperature" -> Range(40, 120, 20, 150, "degC")
          [] k = "compressor-vibration"   -> Range(0, 7, 0, 12, "mm/s")
          [] k = "compressor-rpm"         -> Range(1000, 3000, 800, 3500, "RPM")
          [] k = "heater-temperature"     -> Range(200, 500, 150, 600, "degC")
          [] k = "heater-pressure"        -> Range(50, 200, 30, 250, "PSI")
          [] k = "heater-flow"            -> Range(50, 300, 30, 400, "GPM")
          [] k = "finfan-temperature"     -> Range(30, 80, 20, 100, "degC")
          [] k = "finfan-pressure"        -> Range(20, 100, 10, 120, "PSI")
          [] k = "finfan-rpm"             -> Range(500, 1500, 400, 1800, "RPM")
          [] k = "reactor-pressure"       -> Range(100, 500, 80, 600, "PSI")
          [] k = "reactor-temperature"    -> Range(150, 400, 100, 500, "degC")
          [] k = "reactor-level"          -> Range(30, 90, 10, 95, "%")
          [] k = "tower-pressure"         -> Range(20, 150, 10, 180, "PSI")
          [] k = "tower-temperature"      -> Range(80, 250, 50, 300, "degC")
          [] k = "tower-level"            -> Range(40, 85, 20, 95, "%")
          [] k = "exchanger-temperature"  -> Range(40, 150, 20, 180, "degC")
          [] k = "exchanger-pressure"     -> Range(30, 120, 20, 150, "PSI")
          [] k = "exchanger-flow"         -> Range(100, 400, 50, 500, "GPM")]

\* The object literal on the right of `defaultRanges[key] || ...`
fallbackRange == Range(0, 100, 0, 150, "units")

EquipmentType ==
    {"pump", "finfan", "heater", "compressor", "reactor", "tower", "exchanger", "valve"}

ParameterType ==
    {"pressure", "temperature", "flow_rate", "vibration", "rpm", "current", "voltage", "level"}

getRangeKey(equipmentType, parameter) == equipmentType \o "-" \o parameter

getEquipmentRangeKey(equipmentId, parameter) == equipmentId \o "-" \o parameter

getDefaultRange(equipmentType, parameter) ==
    LET key == getRangeKey(equipmentType, parameter)
    IN  IF key \in DOMAIN defaultRanges THEN defaultRanges[key] ELSE fallbackRange

\* The mutants of getEquipmentRange: one that never looks at the overrides, one
\* that lets a populated type default win over the override.
getEquipmentRangeTypeOnly(custom, equipmentId, equipmentType, parameter) ==
    getDefaultRange(equipmentType, parameter)

getEquipmentRangeDefaultFirst(custom, equipmentId, equipmentType, parameter) ==
    LET customKey == getEquipmentRangeKey(equipmentId, parameter)
    IN  IF getRangeKey(equipmentType, parameter) \in DOMAIN defaultRanges
        THEN getDefaultRange(equipmentType, parameter)
        ELSE IF customKey \in DOMAIN custom THEN custom[customKey]
             ELSE fallbackRange

getEquipmentRange(custom, equipmentId, equipmentType, parameter) ==
    LET customKey == getEquipmentRangeKey(equipmentId, parameter)
    IN  IF customKey \in DOMAIN custom
        THEN custom[customKey]
        ELSE getDefaultRange(equipmentType, parameter)

\* equipmentCustomRanges[key] = ranges, as the registry after the assignment
setEquipmentRange(custom, equipmentId, parameter, ranges) ==
    LET key == getEquipmentRangeKey(equipmentId, parameter)
    IN  [k \in DOMAIN custom \cup {key} |-> IF k = key THEN ranges ELSE custom[k]]

\* A number is an integer n, or Near(n, k): the double k units in the last
\* place (ulps) above the integer n, for a few k >= 0.  Near(100, 1) is
\* 100.00000000000001, the double next to 100.  Near(n, k) is kept as the
\* integer 2^20 + 8 n + k, beyond every integer the model draws, so that the
\* numbers of both kinds can be members of one set.
Near(n, k) == 2^20 + 8 * n + k
IsNear(x) == x >= 2^20
Whole(x) == IF IsNear(x) THEN (x - 2^20) \div 8 ELSE x
Ulps(x) == IF IsNear(x) THEN (x - 2^20) % 8 ELSE 0

\* a < b
Less(a, b) ==
    \/ Whole(a) < Whole(b)
    \/ Whole(a) = Whole(b) /\ Ulps(a) < Ulps(b)

calculateStatusInclusiveCritical(value, normalMin, normalMax, criticalMin, criticalMax) ==
    IF ~Less(criticalMin, value) \/ ~Less(value, criticalMax) THEN "critical"
    ELSE IF Less(value, normalMin) \/ Less(normalMax, value) THEN "warning"
    ELSE "normal"

calculateStatus(value, normalMin, normalMax, criticalMin, criticalMax) ==
    IF Less(value, criticalMin) \/ Less(criticalMax, value) THEN "critical"
    ELSE IF Less(value, normalMin) \/ Less(normalMax, value) THEN "warning"
    ELSE "normal"

Abs(x) == IF x < 0 THEN -x ELSE x

\* A JavaScript number that may be non-finite: tenths is meaningful for "num".
Num(t) == [kind |-> "num", tenths |-> t]
NaN == [kind |-> "NaN", tenths |-> 0]
Infinity == [kind |-> "Infinity", tenths |-> 0]

\* Math.round(x) for the rational x = p / q with q > 0: floor(x + 1/2)
RoundRatio(p, q) == (2 * p + q) \div (2 * q)

\* A deviation measured from the lower bound instead of the midpoint
calculateDeviationFromMin(value, normalMin, normalMax) ==
    LET normalRange == normalMax - normalMin
    IN  IF normalRange > 0
        THEN Num(RoundRatio(1000 * Abs(value - normalMin), normalRange))
        ELSE NaN

\* normalMin + normalMax for two doubles s ulps above the same integer in all:
\* the sum lies in the next binade, whose doubles are two of these ulps apart,
\* so an odd s is a tie and goes to the neighbour with the even significand.
RoundToEven(s) ==
    IF s % 2 = 0 THEN s
    ELSE IF (s + 1) % 4 = 0 THEN s + 1 ELSE s - 1

\* The deviation in tenths of a percent.  |value - mid| / range * 100 * 10 is
\* the rational 500 * |2 value - min - max| / (max - min); a zero-width band
\* divides by zero (0/0 is NaN, x/0 is Infinity) and an inverted band gives a
\* non-positive quotient.  Three integers are taken as they are.  With a
\* Near number among them the three share their integer and are measured in
\* ulps from it; halving the sum, the two subtractions and the quotient of
\* the small ulp counts are then exact or rounded far below a tenth.
calculateDeviation(value, normalMin, normalMax) ==
    LET exact == Ulps(value) = 0 /\ Ulps(normalMin) = 0 /\ Ulps(normalMax) = 0
        v == IF exact THEN Whole(value) ELSE Ulps(value)
        lo == IF exact THEN Whole(normalMin) ELSE Ulps(normalMin)
        hi == IF exact THEN Whole(normalMax) ELSE Ulps(normalMax)
        sum == IF exact THEN lo + hi ELSE RoundToEven(lo + hi)
        twiceDist == Abs(2 * v - sum)
        normalRange == hi - lo
    IN  IF normalRange = 0
        THEN IF twiceDist = 0 THEN NaN ELSE Infinity
        ELSE IF normalRange > 0
             THEN Num(RoundRatio(500 * twiceDist, normalRange))
             ELSE Num(RoundRatio(-(500 * twiceDist), -normalRange))

\* deviation > 50 (percent)
DeviationAbove50(deviation) ==
    \/ deviation.kind = "Infinity"
    \/ deviation.kind = "num" /\ deviation.tenths > 500

Last(s) == s[Len(s)]

MinOf(a, b) == IF a < b THEN a ELSE b

\* .sort((a, b) => new Date(b.timestamp) - new Date(a.timestamp)): newest first;
\* Array.prototype.sort is stable, so readings of one millisecond keep their
\* insertion order.  toISOString / new Date(..).getTime() round-trips a
\* millisecond count exactly, so the timestamp is kept as that count.
SortByTimestampDesc(s) ==
    LET n == Len(s)
        rank == [i \in 1..n |->
                    Cardinality({j \in 1..n : s[j].timestamp > s[i].timestamp})
                  + Cardinality({j \in 1..i : s[j].timestamp = s[i].timestamp})]
    IN  [k \in 1..n |-> s[CHOOSE i \in 1..n : rank[i] = k]]

\* .slice(0, 10)
HistoryWindow == 10

\* .slice(0, 3) and .slice(3, 6)
RecentEnd == 3
OlderEnd == 6

\* if (history.length < 3)
MinHistory == 3

Matching(readings, equipmentId, parameter) ==
    SelectSeq(readings, LAMBDA r : r.equipmentId = equipmentId /\ r.parameter = parameter)

\* The mutant of History: the tally sees only the readings the averages use.
HistoryTrendWindowOnly(readings, equipmentId, parameter) ==
    LET sorted == SortByTimestampDesc(Matching(readings, equipmentId, parameter))
    IN  SubSeq(sorted, 1, MinOf(OlderEnd, Len(sorted)))

History(readings, equipmentId, parameter) ==
    LET sorted == SortByTimestampDesc(Matching(readings, equipmentId, parameter))
    IN  SubSeq(sorted, 1, MinOf(HistoryWindow, Len(sorted)))

\* The sum of the values of a window.  A value a few ulps above an integer
\* adds as that integer: the ulps move an average by a part in 10^15, which
\* no comparison of the trend with 5 percent can see.
RECURSIVE SumValues(_)
SumValues(s) == IF s = <<>> THEN 0 ELSE Whole(Head(s).value) + SumValues(Tail(s))

\* The number `trend`: a rational num / den (den > 0) or a non-finite outcome.
Finite(n, d) == [kind |-> "finite", num |-> n, den |-> d]
NonFinite(k) == [kind |-> k, num |-> 0, den |-> 1]

\* recentAvg = sumR / nR, olderAvg = sumO / nO,
\* trend = (recentAvg - olderAvg) / olderAvg * 100.
\* An empty older window is 0 / 0 = NaN, and NaN propagates; a zero olderAvg
\* divides the difference by zero.
Trend(history) ==
    LET recent == SubSeq(history, 1, MinOf(RecentEnd, Len(history)))
        older == SubSeq(history, RecentEnd + 1, MinOf(OlderEnd, Len(history)))
        nR == Len(recent)
        nO == Len(older)
        sumR == SumValues(recent)
        sumO == SumValues(older)
        diff == sumR * nO - sumO * nR   \* (recentAvg - olderAvg) * nR * nO
    IN  IF nO = 0 THEN NonFinite("NaN")
        ELSE IF sumO = 0
             THEN IF diff > 0 THEN NonFinite("Infinity")
                  ELSE IF diff < 0 THEN NonFinite("-Infinity")
                  ELSE NonFinite("NaN")
        ELSE IF sumO > 0 THEN Finite(100 * diff, sumO * nR)
        ELSE Finite(-(100 * diff), -(sumO * nR))

\* Math.abs(trend) < 5
AbsBelow5(trend) == trend.kind = "finite" /\ Abs(trend.num) < 5 * trend.den

\* trend > 5
Above5(trend) ==
    \/ trend.kind = "Infinity"
    \/ trend.kind = "finite" /\ trend.num > 5 * trend.den

\* One line of the analysis text: what it says, and the count it prints.
\* The digits of the averages and of the percentage are not modelled.
Line(k, c) == [kind |-> k, n |-> c]

TrendLines(trend) ==
    IF AbsBelow5(trend) THEN <<Line("TrendStable", 0)>>
    ELSE IF Above5(trend)
         THEN <<Line("TrendIncreasing", 0), Line("MonitorUpward", 0)>>
         ELSE <<Line("TrendDecreasing", 0), Line("MonitorDownward", 0)>>

CountStatus(history, status) ==
    Cardinality({i \in 1..Len(history) : history[i].status = status})

IncidentLines(history) ==
    LET warnings == CountStatus(history, "warning")
        criticals == CountStatus(history, "critical")
    IN  IF criticals > 0
        THEN <<Line("CriticalCount", criticals), Line("RecommendInspection", 0)>>
        ELSE IF warnings > 2
             THEN <<Line("WarningCount", warnings), Line("RecommendMaintenance", 0)>>
             ELSE <<>>

\* The mutant of analyzeReadingHistory: the size gate is off by one.
analyzeReadingHistoryGateOffByOne(readings, equipmentId, parameter) ==
    LET history == History(readings, equipmentId, parameter)
    IN  IF Len(history) <= MinHistory
        THEN <<Line("Insufficient", 0)>>
        ELSE <<Line("Header", 0), Line("RecentAverage", 0), Line("PreviousAverage", 0)>>
             \o TrendLines(Trend(history)) \o IncidentLines(history)

\* The third parameter of the source, currentValue, is never read.
analyzeReadingHistory(readings, equipmentId, parameter) ==
    LET history == History(readings, equipmentId, parameter)
    IN  IF Len(history) < MinHistory
        THEN <<Line("Insufficient", 0)>>
        ELSE <<Line("Header", 0), Line("RecentAverage", 0), Line("PreviousAverage", 0)>>
             \o TrendLines(Trend(history)) \o IncidentLines(history)

\* The mutant of persistedOverride: the critical band is looked up by type.
persistedOverrideTypeCritical(context, equipmentRange, finalUom) ==
    LET byType == getDefaultRange(context.equipmentType, context.parameter)
    IN  Range(context.normalMin[1], context.normalMax[1],
              byType.criticalMin, byType.criticalMax, finalUom)

\* The object handed to setEquipmentRange when both bounds were supplied
persistedOverride(context, equipmentRange, finalUom) ==
    Range(context.normalMin[1], context.normalMax[1],
          equipmentRange.criticalMin, equipmentRange.criticalMax, finalUom)

\* The mutant of StoreReading: earlier readings of the same equipment and
\* parameter follow the range of the newest one (a live reference).
StoreReadingLive(store, reading) ==
    Append([i \in 1..Len(store) |->
                IF  /\ store[i].equipmentId = reading.equipmentId
                    /\ store[i].parameter = reading.parameter
                THEN [store[i] EXCEPT
                        !.normalMin = reading.normalMin,
                        !.normalMax = reading.normalMax,
                        !.criticalMin = reading.criticalMin,
                        !.criticalMax = reading.criticalMax,
                        !.status = calculateStatus(store[i].value, reading.normalMin,
                                        reading.normalMax, reading.criticalMin,
                                        reading.criticalMax),
                        !.deviation = calculateDeviation(store[i].value,
                                        reading.normalMin, reading.normalMax)]
                ELSE store[i]],
           reading)

\* equipmentReadings.push(reading)
StoreReading(store, reading) == Append(store, reading)

Recommendation(status, deviation) ==
    IF status = "critical" THEN "CRITICAL"
    ELSE IF status = "warning" THEN "WARNING"
    ELSE IF DeviationAbove50(deviation) THEN "NOTICE"
    ELSE "NORMAL"

Context(id, type, parameter, value, uom, normalMin, normalMax) ==
    [equipmentId |-> id, equipmentType |-> type, parameter |-> parameter,
     value |-> value, uom |-> uom, normalMin |-> normalMin, normalMax |-> normalMax]

BothSupplied(context) ==
    context.normalMin # Undefined /\ context.normalMax # Undefined

\* The history kept beside the program's state: how many logShiftNote and
\* recordEquipmentReading calls have completed; the store the latest report
\* read and when; for each filter, the time and the result of its latest
\* queryShiftStatus call since the last logShiftNote call; and, when the
\* latest request was a query that repeated such a call, the two answers.
NoHistory ==
    [logShiftNote |-> 0, recordEquipmentReading |-> 0,
     read |-> <<>>, queried |-> <<>>, repeated |-> <<>>]

Logging(h) ==
    [h EXCEPT !.logShiftNote = h.logShiftNote + 1, !.queried = <<>>, !.repeated = <<>>]

Recording(h) ==
    [h EXCEPT !.recordEquipmentReading = h.recordEquipmentReading + 1,
              !.repeated = <<>>]

Reporting(h, store, t) ==
    [h EXCEPT !.read = <<[at |-> t, notes |-> store]>>, !.repeated = <<>>]

Querying(h, store, t, context, r) ==
    LET answer == [at |-> t, result |-> r]
    IN  [h EXCEPT
            !.read = <<[at |-> t, notes |-> store]>>,
            !.repeated = IF context \in DOMAIN h.queried
                         THEN <<[context |-> context, before |-> h.queried[context],
                                 after |-> answer]>>
                         ELSE <<>>,
            !.queried = [c \in DOMAIN h.queried \cup {context} |->
                            IF c = context THEN answer ELSE h.queried[c]]]

Init ==
    /\ equipmentReadings = <<>>
    /\ equipmentCustomRanges = <<>>
    /\ now = 0
    /\ lastCall = <<>>
    /\ result = <<>>
    /\ suppliedBounds = <<>>
    /\ shiftNotes = <<>>
    /\ lastNoteCall = <<>>
    /\ noteResult = <<>>
    /\ past = NoHistory

\* recordEquipmentReadingTool.execute, called when the clock reads t
RecordEquipmentReading(context, t) ==
    LET equipmentId == context.equipmentId
        parameter == context.parameter
        equipmentRange == getEquipmentRange(equipmentCustomRanges, equipmentId,
                                            context.equipmentType, parameter)
        finalUom == OrElse(context.uom, equipmentRange.uom)
        finalNormalMin == Coalesce(context.normalMin, equipmentRange.min)
        finalNormalMax == Coalesce(context.normalMax, equipmentRange.max)
        finalCriticalMin == equipmentRange.criticalMin
        finalCriticalMax == equipmentRange.criticalMax
        custom == IF BothSupplied(context)
                  THEN setEquipmentRange(equipmentCustomRanges, equipmentId, parameter,
                           persistedOverride(context, equipmentRange, finalUom))
                  ELSE equipmentCustomRanges
        status == calculateStatus(context.value, finalNormalMin, finalNormalMax,
                                  finalCriticalMin, finalCriticalMax)
        deviation == calculateDeviation(context.value, finalNormalMin, finalNormalMax)
        reading == [timestamp |-> t,
                    shift |-> getCurrentShiftReading(getHours(t)),
                    equipmentId |-> equipmentId,
                    equipmentType |-> context.equipmentType,
                    parameter |-> parameter,
                    value |-> context.value,
                    uom |-> finalUom,
                    normalMin |-> finalNormalMin,
                    normalMax |-> finalNormalMax,
                    criticalMin |-> finalCriticalMin,
                    criticalMax |-> finalCriticalMax,
                    status |-> status,
                    deviation |-> deviation]
        stored == StoreReading(equipmentReadings, reading)
        trendAnalysis == analyzeReadingHistory(stored, equipmentId, parameter)
        key == getEquipmentRangeKey(equipmentId, parameter)
    IN  /\ t >= now
        /\ now' = t
        /\ equipmentCustomRanges' = custom
        /\ equipmentReadings' = stored
        /\ lastCall' = <<context>>
        /\ result' = <<[success |-> TRUE,
                        status |-> status,
                        deviation |-> deviation,
                        recommendation |-> Recommendation(status, deviation),
                        trendAnalysis |-> trendAnalysis]>>
        /\ suppliedBounds' =
              IF BothSupplied(context)
              THEN [k \in DOMAIN suppliedBounds \cup {key} |->
                        IF k = key THEN <<context.normalMin[1], context.normalMax[1]>>
                        ELSE suppliedBounds[k]]
              ELSE suppliedBounds
        /\ past' = Recording(past)
        /\ UNCHANGED <<shiftNotes, lastNoteCall, noteResult>>

\* The exported setEquipmentRange, called by configuration code
SetEquipmentRange(equipmentId, parameter, ranges) ==
    LET key == getEquipmentRangeKey(equipmentId, parameter)
    IN  /\ equipmentCustomRanges' =
              setEquipmentRange(equipmentCustomRanges, equipmentId, parameter, ranges)
        /\ suppliedBounds' = [k \in DOMAIN suppliedBounds \ {key} |-> suppliedBounds[k]]
        /\ UNCHANGED <<equipmentReadings, now, lastCall, result>>
        /\ UNCHANGED <<shiftNotes, lastNoteCall, noteResult, past>>

----------------------------------------------------------------------------
(* Text.                                                                   *)

CharAt(s, i) == SubSeq(s, i, i)

UpperCase == "ABCDEFGHIJKLMNOPQRSTUVWXYZ"
LowerCase == "abcdefghijklmnopqrstuvwxyz"
Digits == "0123456789"

Chars(alphabet) == {CharAt(alphabet, k) : k \in 1..Len(alphabet)}

\* The letter at the same place of the other alphabet
Translate(from, to) ==
    [c \in Chars(from) |-> CharAt(to, CHOOSE k \in 1..Len(from) : CharAt(from, k) = c)]

LowerOf == Translate(UpperCase, LowerCase)
UpperOf == Translate(LowerCase, UpperCase)
DigitChars == Chars(Digits)

toLowerCaseChar(c) == IF c \in DOMAIN LowerOf THEN LowerOf[c] ELSE c

toUpperCaseChar(c) == IF c \in DOMAIN UpperOf THEN UpperOf[c] ELSE c

RECURSIVE toLowerCase(_)
\* String.prototype.toLowerCase
toLowerCase(s) ==
    IF s = "" THEN ""
    ELSE toLowerCaseChar(CharAt(s, 1)) \o toLowerCase(SubSeq(s, 2, Len(s)))

\* String.prototype.includes
includes(s, keyword) ==
    \E i \in 1..(Len(s) - Len(keyword) + 1) : SubSeq(s, i, i + Len(keyword) - 1) = keyword

\* s.charAt(0).toUpperCase() + s.slice(1)
Capitalize(s) == toUpperCaseChar(CharAt(s, 1)) \o SubSeq(s, 2, Len(s))

\* \d and \s of a regular expression
IsDigit(c) == c \in DigitChars
IsSpace(c) == c \in {" ", "\t", "\n", "\r"}

\* The index just past the longest run of white space, of digits, from i on
SpacesEnd(s, i) ==
    CHOOSE j \in i..(Len(s) + 1) :
        /\ \A k \in i..(j - 1) : IsSpace(CharAt(s, k))
        /\ j = Len(s) + 1 \/ ~IsSpace(CharAt(s, j))

DigitsEnd(s, i) ==
    CHOOSE j \in i..(Len(s) + 1) :
        /\ \A k \in i..(j - 1) : IsDigit(CharAt(s, k))
        /\ j = Len(s) + 1 \/ ~IsDigit(CharAt(s, j))

\* /word\s*(\d+)/i (spaces) or /word(\d+)/i (no spaces)
Pattern(word, spaces) == [word |-> word, spaces |-> spaces]

\* Where the digits start if the pattern matches at index i
DigitsStart(s, pattern, i) ==
    IF pattern.spaces THEN SpacesEnd(s, i + Len(pattern.word)) ELSE i + Len(pattern.word)

MatchesAt(s, pattern, i) ==
    /\ i + Len(pattern.word) - 1 <= Len(s)
    /\ toLowerCase(SubSeq(s, i, i + Len(pattern.word) - 1)) = pattern.word
    /\ DigitsEnd(s, DigitsStart(s, pattern, i)) > DigitsStart(s, pattern, i)

MinOfSet(S) == CHOOSE x \in S : \A y \in S : x <= y

\* note.match(pattern): null, or the capture of the leftmost match, which
\* takes every digit of the run
match(s, pattern) ==
    LET hits == {i \in 1..Len(s) : MatchesAt(s, pattern, i)}
    IN  IF hits = {} THEN Undefined
        ELSE LET start == DigitsStart(s, pattern, MinOfSet(hits))
             IN  Some(SubSeq(s, start, DigitsEnd(s, start) - 1))

----------------------------------------------------------------------------
(* The Note Classifier and the Note Store.                                 *)

NoteType == {"maintenance", "alert", "status", "general"}
PriorityLevel == {"low", "medium", "high", "critical"}

patterns ==
    <<Pattern("unit", TRUE), Pattern("u", FALSE), Pattern("reactor", TRUE),
      Pattern("pump", TRUE), Pattern("tower", TRUE)>>

extractUnitNumber(note) ==
    LET matching == {p \in 1..Len(patterns) : match(note, patterns[p]) # Undefined}
    IN  IF matching = {} THEN "General"
        ELSE match(note, patterns[MinOfSet(matching)])[1]

AlertKeywords == {"alert", "warning", "spike", "urgent", "critical", "emergency"}
MaintenanceKeywords == {"maintenance", "repair", "inspection", "cleaning", "service", "fix"}
StatusKeywords == {"pressure", "temperature", "psi", "stable", "normal", "operating"}

IncludesAny(lowerNote, keywords) == \E k \in keywords : includes(lowerNote, k)

\* A classifier that looks for maintenance keywords before alert keywords
categorizeNoteMaintenanceFirst(note) ==
    LET lowerNote == toLowerCase(note)
    IN  IF IncludesAny(lowerNote, MaintenanceKeywords) THEN "maintenance"
        ELSE IF IncludesAny(lowerNote, AlertKeywords) THEN "alert"
        ELSE IF IncludesAny(lowerNote, StatusKeywords) THEN "status"
        ELSE "general"

categorizeNote(note) ==
    LET lowerNote == toLowerCase(note)
    IN  IF IncludesAny(lowerNote, AlertKeywords) THEN "alert"
        ELSE IF IncludesAny(lowerNote, MaintenanceKeywords) THEN "maintenance"
        ELSE IF IncludesAny(lowerNote, StatusKeywords) THEN "status"
        ELSE "general"

CriticalKeywords == {"critical", "emergency", "shutdown", "failure"}
HighKeywords == {"urgent", "immediate", "alert"}

\* A priority that lets the note's type decide before its critical keywords
determinePriorityTypeFirst(note, type) ==
    LET lowerNote == toLowerCase(note)
    IN  IF type = "alert" THEN "high"
        ELSE IF type = "maintenance" THEN "medium"
        ELSE IF IncludesAny(lowerNote, CriticalKeywords) THEN "critical"
        ELSE IF IncludesAny(lowerNote, HighKeywords) THEN "high"
        ELSE IF includes(lowerNote, "attention") THEN "medium"
        ELSE "low"

\* A priority that tests the medium rule before the high rule
determinePriorityMediumFirst(note, type) ==
    LET lowerNote == toLowerCase(note)
    IN  IF IncludesAny(lowerNote, CriticalKeywords) THEN "critical"
        ELSE IF type = "maintenance" \/ includes(lowerNote, "attention") THEN "medium"
        ELSE IF IncludesAny(lowerNote, HighKeywords) \/ type = "alert" THEN "high"
        ELSE "low"

\* A priority that reads the keywords only and not the type
determinePriorityKeywordsOnly(note, type) ==
    LET lowerNote == toLowerCase(note)
    IN  IF IncludesAny(lowerNote, CriticalKeywords) THEN "critical"
        ELSE IF IncludesAny(lowerNote, HighKeywords) THEN "high"
        ELSE IF includes(lowerNote, "attention") THEN "medium"
        ELSE "low"

determinePriority(note, type) ==
    LET lowerNote == toLowerCase(note)
    IN  IF IncludesAny(lowerNote, CriticalKeywords) THEN "critical"
        ELSE IF IncludesAny(lowerNote, HighKeywords) \/ type = "alert" THEN "high"
        ELSE IF type = "maintenance" \/ includes(lowerNote, "attention") THEN "medium"
        ELSE "low"

\* `note_${Date.now()}_${Math.random().toString(36).substr(2, 9)}`
generateId(t, random) == <<"note", t, random>>

formatShiftName(shift) == Capitalize(shift) \o " Shift"
formatNoteType(type) == Capitalize(type)

\* toLocaleTimeString('en-US', {hour: 'numeric', minute: '2-digit', hour12:
\* true}) of instant t: the hour on the 12-hour dial, the tick within the hour
\* for the minutes, and AM or PM
toLocaleTimeString(t) ==
    <<IF getHours(t) % 12 = 0 THEN 12 ELSE getHours(t) % 12,
      t % TicksPerHour,
      IF getHours(t) < 12 THEN "AM" ELSE "PM">>

\* getNextHandoverTime, given the instant its new Date() read: the next
\* boundary hour at zero minutes, as toLocaleTimeString prints it
getNextHandoverTime(t) ==
    LET hour == getHours(t)
        nextHour == IF hour < 6 THEN 6
                    ELSE IF hour < 14 THEN 14
                    ELSE IF hour < 22 THEN 22
                    ELSE 6
    IN  <<IF nextHour > 12 THEN nextHour - 12 ELSE nextHour,
          0,
          IF nextHour < 12 THEN "AM" ELSE "PM">>

NoteContext(note, unit, type) == [note |-> note, unit |-> unit, type |-> type]

\* shiftNotes.push(shiftNote)
\* A store that takes the new note at the front (unshift)
StoreNoteFirst(store, shiftNote) == <<shiftNote>> \o store

\* A store in which a push lands on the slot of the push before it
StoreNoteOverwrite(store, shiftNote) ==
    IF store = <<>> THEN <<shiftNote>>
    ELSE [store EXCEPT ![Len(store)] = shiftNote]

StoreNote(store, shiftNote) == Append(store, shiftNote)

\* logShiftNoteTool.execute.  The handler reads the clock more than once:
\* getCurrentShift reads it at tShift, and generateId, the note's timestamp
\* and the reply read it afterwards, at tStamp.
LogShiftNote(context, tShift, tStamp, random) ==
    LET note == context.note
        unit == OrElse(context.unit, extractUnitNumber(note))
        type == OrElse(context.type, categorizeNote(note))
        priority == determinePriority(note, type)
        shift == getCurrentShift(getHours(tShift))
        shiftNote == [id |-> generateId(tStamp, random),
                      timestamp |-> tStamp,
                      shift |-> shift,
                      unit |-> unit,
                      note |-> note,
                      type |-> type,
                      priority |-> priority,
                      resolved |-> FALSE]
        nextHandover == getNextHandoverTime(tStamp)
        currentTime == toLocaleTimeString(tStamp)
    IN  /\ tShift >= now
        /\ tStamp >= tShift
        /\ now' = tStamp
        /\ shiftNotes' = StoreNote(shiftNotes, shiftNote)
        /\ lastNoteCall' = <<[tool |-> "logShiftNote", context |-> context,
                              hour |-> getHours(tShift)]>>
        /\ noteResult' = <<[success |-> TRUE,
                            noteId |-> shiftNote.id,
                            shift |-> formatShiftName(shift),
                            unit |-> unit,
                            type |-> formatNoteType(type),
                            priority |-> Capitalize(priority),
                            timestamp |-> currentTime,
                            nextHandover |-> nextHandover,
                            message |-> <<formatShiftName(shift), unit,
                                          formatNoteType(type), Capitalize(priority),
                                          currentTime, nextHandover>>]>>
        /\ past' = Logging(past)
        /\ UNCHANGED <<equipmentReadings, equipmentCustomRanges, lastCall, result,
                       suppliedBounds>>

----------------------------------------------------------------------------
(* The reports.  A report text is kept as the sequence of its lines, each  *)
(* line as its kind and the values printed in it.  The helper functions    *)
(* formatShiftName, getShiftTimeRange, formatTimestamp and                 *)
(* groupNotesByType are repeated word for word in each tool's file and     *)
(* are modelled once.  Each report handler's clock reads are taken at one  *)
(* instant t.                                                              *)

RECURSIVE toUpperCase(_)
\* String.prototype.toUpperCase
toUpperCase(s) ==
    IF s = "" THEN ""
    ELSE toUpperCaseChar(CharAt(s, 1)) \o toUpperCase(SubSeq(s, 2, Len(s)))

RECURSIVE DigitsOf(_)
\* s.replace(/[^\d]/g, '')
DigitsOf(s) ==
    IF s = "" THEN ""
    ELSE (IF IsDigit(CharAt(s, 1)) THEN CharAt(s, 1) ELSE "")
         \o DigitsOf(SubSeq(s, 2, Len(s)))

getPreviousShift(currentShift) ==
    CASE currentShift = "day" -> "night"
      [] currentShift = "afternoon" -> "day"
      [] currentShift = "night" -> "afternoon"

\* A rotation that runs backwards
getNextShiftBackward(currentShift) ==
    CASE currentShift = "day" -> "night"
      [] currentShift = "afternoon" -> "day"
      [] currentShift = "night" -> "afternoon"

getNextShift(currentShift) ==
    CASE currentShift = "day" -> "afternoon"
      [] currentShift = "afternoon" -> "night"
      [] currentShift = "night" -> "day"

getShiftTimeRange(shift) ==
    CASE shift = "day" -> "6:00 AM - 2:00 PM"
      [] shift = "afternoon" -> "2:00 PM - 10:00 PM"
      [] shift = "night" -> "10:00 PM - 6:00 AM"

getShiftEmoji(shift) ==
    CASE shift = "day" -> "sun"
      [] shift = "afternoon" -> "sunset"
      [] shift = "night" -> "moon"

\* new Date(isoTimestamp).toLocaleTimeString(...)
formatTimestamp(timestamp) == toLocaleTimeString(timestamp)

\* new Date().toLocaleDateString(...): the local day that holds instant t
toLocaleDateString(t) == t \div (24 * TicksPerHour)

\* Every note of the store, whatever its shift
notesOfAnyShift(store, shift) == store

\* shiftNotes.filter(note => note.shift === shift)
notesOfShift(store, shift) == SelectSeq(store, LAMBDA note : note.shift = shift)

notesOfType(notes, type) == SelectSeq(notes, LAMBDA n : n.type = type)

groupNotesByType(notes) ==
    [maintenance |-> notesOfType(notes, "maintenance"),
     alerts |-> notesOfType(notes, "alert"),
     status |-> notesOfType(notes, "status"),
     general |-> notesOfType(notes, "general")]

ReportLine(kind, data) == [kind |-> kind, data |-> data]

priorityFlag(note) ==
    IF note.priority = "critical" THEN "siren"
    ELSE IF note.priority = "high" THEN "warning"
    ELSE ""

\* formatNotesList of get-previous-shift-report-tool.ts, includeUnit at its default
\* A store that formatNotesList sorted in place
storeSortedInPlace(store) == SortByTimestampDesc(store)

\* The store after a report has run.  formatNotesList sorts its argument in
\* place, and every argument it gets is an array that .filter built inside
\* groupNotesByType, so the order of the store itself is as it was.
storeAfterSort(store) == store

formatNotesListReport(notes) ==
    IF Len(notes) = 0 THEN <<ReportLine("NoneReported", <<>>)>>
    ELSE LET sorted == SortByTimestampDesc(notes)
         IN  [i \in 1..Len(sorted) |->
                 ReportLine("UnitNoteTime",
                            <<sorted[i].unit, sorted[i].note, priorityFlag(sorted[i]),
                              formatTimestamp(sorted[i].timestamp)>>)]

\* formatNotesList of queryShiftStatusTool
formatNotesListQuery(notes) ==
    IF Len(notes) = 0 THEN <<ReportLine("None", <<>>)>>
    ELSE LET sorted == SortByTimestampDesc(notes)
         IN  [i \in 1..Len(sorted) |->
                 ReportLine("NoteUnitTime",
                            <<sorted[i].note, priorityFlag(sorted[i]), sorted[i].unit,
                              formatTimestamp(sorted[i].timestamp)>>)]

\* formatNotesList of generateShiftHandoverSummaryTool
formatNotesListSummary(notes) ==
    IF Len(notes) = 0 THEN <<ReportLine("NoneReported", <<>>)>>
    ELSE LET sorted == SortByTimestampDesc(notes)
         IN  [i \in 1..Len(sorted) |->
                 ReportLine("UnitNoteLogged",
                            <<sorted[i].unit, sorted[i].note, priorityFlag(sorted[i]),
                              formatTimestamp(sorted[i].timestamp)>>)]

\* getUnresolvedNotes of get-previous-shift-report-tool.ts
getUnresolvedNotesReport(notes) ==
    SelectSeq(notes, LAMBDA note :
        ~note.resolved /\ (note.type = "maintenance" \/ note.type = "alert"))

\* getUnresolvedNotes of generateShiftHandoverSummaryTool
getUnresolvedNotesSummary(notes) ==
    SelectSeq(notes, LAMBDA note :
        /\ ~note.resolved
        /\ \/ note.type = "maintenance" \/ note.type = "alert"
           \/ note.priority = "high" \/ note.priority = "critical")

ShiftContext(shift) == [shift |-> shift]

\* The text getPreviousShiftReportTool.execute builds
PreviousShiftReportText(previousShiftNotes, targetShift, currentShift, t) ==
    LET grouped == groupNotesByType(previousShiftNotes)
        unresolved == getUnresolvedNotesReport(previousShiftNotes)
        standard ==
            <<ReportLine("ShiftHandoverReport", <<>>),
              ReportLine("From", <<formatShiftName(targetShift),
                                   getShiftTimeRange(targetShift)>>),
              ReportLine("To", <<formatShiftName(currentShift),
                                 getShiftTimeRange(currentShift)>>),
              ReportLine("Date", <<toLocaleDateString(t)>>),
              ReportLine("Rule", <<>>),
              ReportLine("MaintenanceHeading", <<>>)>>
            \o (IF Len(grouped.maintenance) > 0
                THEN formatNotesListReport(grouped.maintenance)
                ELSE <<ReportLine("NoMaintenance", <<>>)>>)
            \o <<ReportLine("AlertsHeading", <<>>)>>
            \o (IF Len(grouped.alerts) > 0
                THEN formatNotesListReport(grouped.alerts)
                ELSE <<ReportLine("NoAlerts", <<>>)>>)
            \o <<ReportLine("StatusHeading", <<>>)>>
            \o (IF Len(grouped.status) > 0
                THEN formatNotesListReport(grouped.status)
                ELSE <<ReportLine("NoStatus", <<>>)>>)
            \o (IF Len(grouped.general) > 0
                THEN <<ReportLine("GeneralHeading", <<>>)>>
                     \o formatNotesListReport(grouped.general)
                ELSE <<>>)
            \o <<ReportLine("PendingFor", <<toUpperCase(formatShiftName(currentShift))>>)>>
            \o (IF Len(unresolved) > 0
                THEN [i \in 1..Len(unresolved) |->
                         ReportLine("PendingItem",
                             <<IF unresolved[i].type = "maintenance"
                               THEN "wrench" ELSE "warning",
                               unresolved[i].unit, unresolved[i].note>>)]
                ELSE <<ReportLine("NoPending", <<>>)>>)
            \o <<ReportLine("Rule", <<>>),
                 ReportLine("SummaryHeading", <<>>),
                 ReportLine("TotalNotes", <<Len(previousShiftNotes)>>),
                 ReportLine("Counts", <<Len(grouped.maintenance), Len(grouped.alerts),
                                        Len(grouped.status)>>),
                 ReportLine("UnresolvedItems", <<Len(unresolved)>>)>>
        empty ==
            <<ReportLine("PreviousShiftReport", <<>>),
              ReportLine("NoNotesLogged", <<formatShiftName(targetShift)>>),
              ReportLine("ThisCouldMean", <<>>),
              ReportLine("Uneventful", <<>>),
              ReportLine("NotLogged", <<>>),
              ReportLine("CurrentShift", <<formatShiftName(currentShift),
                                           getShiftTimeRange(currentShift)>>)>>
    IN  IF Len(previousShiftNotes) = 0 THEN empty ELSE standard

\* getPreviousShiftReportTool.execute
GetPreviousShiftReport(context, t) ==
    LET currentShift == getCurrentShiftReport(getHours(t))
        targetShift == OrElse(context.shift, getPreviousShift(currentShift))
        previousShiftNotes == notesOfShift(shiftNotes, targetShift)
        grouped == groupNotesByType(previousShiftNotes)
        unresolved == getUnresolvedNotesReport(previousShiftNotes)
    IN  /\ t >= now
        /\ now' = t
        /\ lastNoteCall' = <<[tool |-> "getPreviousShiftReport", context |-> context,
                              hour |-> getHours(t)]>>
        /\ noteResult' = <<[shift |-> formatShiftName(targetShift),
                            timeRange |-> getShiftTimeRange(targetShift),
                            totalNotes |-> Len(previousShiftNotes),
                            maintenanceCount |-> Len(grouped.maintenance),
                            alertCount |-> Len(grouped.alerts),
                            statusCount |-> Len(grouped.status),
                            unresolvedCount |-> Len(unresolved),
                            formattedReport |->
                                PreviousShiftReportText(previousShiftNotes, targetShift,
                                                        currentShift, t)]>>
        /\ shiftNotes' = storeAfterSort(shiftNotes)
        /\ past' = Reporting(past, shiftNotes, t)
        /\ UNCHANGED <<equipmentReadings, equipmentCustomRanges, lastCall, result,
                       suppliedBounds>>

QueryContext(unit, type, showAll) == [unit |-> unit, type |-> type, showAll |-> showAll]

\* if (filterUnit): an absent or empty filter is none
HasUnitFilter(context) == context.unit # Undefined /\ context.unit[1] # ""

\* if (filterType && filterType !== 'all')
HasTypeFilter(context) == context.type # Undefined /\ context.type[1] # "all"

\* The notes queryShiftStatusTool.execute selects
QueryFilter(store, context, currentShift) ==
    LET byShift == IF context.showAll = Some(TRUE)
                   THEN store
                   ELSE notesOfShift(store, currentShift)
        byUnit == IF HasUnitFilter(context)
                  THEN SelectSeq(byShift, LAMBDA note :
                           \/ note.unit = DigitsOf(context.unit[1])
                           \/ note.unit = context.unit[1])
                  ELSE byShift
    IN  IF HasTypeFilter(context)
        THEN SelectSeq(byUnit, LAMBDA note : note.type = context.type[1])
        ELSE byUnit

\* The text queryShiftStatusTool.execute builds
QuerySummaryText(filteredNotes, context, currentShift) ==
    LET grouped == groupNotesByType(filteredNotes)
        current == ReportLine("CurrentShift", <<formatShiftName(currentShift),
                                                getShiftTimeRange(currentShift)>>)
        standard ==
            <<current>>
            \o (IF HasUnitFilter(context)
                THEN <<ReportLine("FilteringByUnit", <<DigitsOf(context.unit[1])>>)>>
                ELSE <<>>)
            \o (IF HasTypeFilter(context)
                THEN <<ReportLine("FilteringByType", <<Capitalize(context.type[1])>>)>>
                ELSE <<>>)
            \o <<ReportLine("Rule", <<>>),
                 ReportLine("MaintenanceHeading", <<>>)>>
            \o formatNotesListQuery(grouped.maintenance)
            \o <<ReportLine("AlertsHeading", <<>>)>>
            \o formatNotesListQuery(grouped.alerts)
            \o <<ReportLine("StatusHeading", <<>>)>>
            \o formatNotesListQuery(grouped.status)
            \o (IF Len(grouped.general) > 0
                THEN <<ReportLine("GeneralHeading", <<>>)>>
                     \o formatNotesListQuery(grouped.general)
                ELSE <<>>)
            \o <<ReportLine("Rule", <<>>),
                 ReportLine("TotalNotes", <<Len(filteredNotes)>>),
                 ReportLine("Counts", <<Len(grouped.maintenance), Len(grouped.alerts),
                                        Len(grouped.status)>>)>>
        empty ==
            <<current>>
            \o (IF HasUnitFilter(context)
                THEN <<ReportLine("NoNotesForUnit", <<DigitsOf(context.unit[1])>>)>>
                ELSE <<ReportLine("NoNotesYet", <<>>)>>)
            \o <<ReportLine("YouCanLog", <<>>)>>
    IN  IF Len(filteredNotes) = 0 THEN empty ELSE standard

\* queryShiftStatusTool.execute
QueryShiftStatus(context, t) ==
    LET currentShift == getCurrentShiftQuery(getHours(t))
        filteredNotes == QueryFilter(shiftNotes, context, currentShift)
        grouped == groupNotesByType(filteredNotes)
        returned == [shift |-> formatShiftName(currentShift),
                     timeRange |-> getShiftTimeRange(currentShift),
                     totalNotes |-> Len(filteredNotes),
                     maintenanceCount |-> Len(grouped.maintenance),
                     alertCount |-> Len(grouped.alerts),
                     statusCount |-> Len(grouped.status),
                     formattedSummary |->
                         QuerySummaryText(filteredNotes, context, currentShift)]
    IN  /\ t >= now
        /\ now' = t
        /\ lastNoteCall' = <<[tool |-> "queryShiftStatus", context |-> context,
                              hour |-> getHours(t)]>>
        /\ noteResult' = <<returned>>
        /\ shiftNotes' = storeAfterSort(shiftNotes)
        /\ past' = Querying(past, shiftNotes, t, context, returned)
        /\ UNCHANGED <<equipmentReadings, equipmentCustomRanges, lastCall, result,
                       suppliedBounds>>

\* The text generateShiftHandoverSummaryTool.execute builds
HandoverSummaryText(shiftNotesFiltered, currentShift, nextShift, t) ==
    LET grouped == groupNotesByType(shiftNotesFiltered)
        unresolved == getUnresolvedNotesSummary(shiftNotesFiltered)
        heading ==
            <<ReportLine("ShiftHandoverSummary", <<getShiftEmoji(currentShift)>>),
              ReportLine("Rule", <<>>),
              ReportLine("From", <<formatShiftName(currentShift),
                                   getShiftTimeRange(currentShift)>>),
              ReportLine("To", <<formatShiftName(nextShift),
                                 getShiftTimeRange(nextShift)>>),
              ReportLine("Date", <<toLocaleDateString(t)>>)>>
        closing ==
            <<ReportLine("Rule", <<>>),
              ReportLine("HandoverComplete", <<>>),
              ReportLine("GoodToGo", <<formatShiftName(nextShift)>>)>>
        standard ==
            heading
            \o <<ReportLine("Time", <<toLocaleTimeString(t)>>),
                 ReportLine("Rule", <<>>),
                 ReportLine("MaintenanceHeading", <<>>)>>
            \o (IF Len(grouped.maintenance) > 0
                THEN formatNotesListSummary(grouped.maintenance)
                ELSE <<ReportLine("NoMaintenance", <<>>)>>)
            \o <<ReportLine("AlertsHeading", <<>>)>>
            \o (IF Len(grouped.alerts) > 0
                THEN formatNotesListSummary(grouped.alerts)
                ELSE <<ReportLine("NoAlerts", <<>>)>>)
            \o <<ReportLine("StatusHeading", <<>>)>>
            \o (IF Len(grouped.status) > 0
                THEN formatNotesListSummary(grouped.status)
                ELSE <<ReportLine("NoStatus", <<>>)>>)
            \o (IF Len(grouped.general) > 0
                THEN <<ReportLine("GeneralHeading", <<>>)>>
                     \o formatNotesListSummary(grouped.general)
                ELSE <<>>)
            \o <<ReportLine("ActionItemsFor", <<toUpperCase(formatShiftName(nextShift))>>)>>
            \o (IF Len(unresolved) > 0
                THEN [i \in 1..Len(unresolved) |->
                         ReportLine("ActionItem",
                             <<IF unresolved[i].type = "maintenance" THEN "wrench"
                               ELSE IF unresolved[i].type = "alert" THEN "warning"
                               ELSE "clipboard",
                               unresolved[i].unit, unresolved[i].note,
                               IF unresolved[i].priority = "critical" THEN "[CRITICAL]"
                               ELSE IF unresolved[i].priority = "high"
                                    THEN "[HIGH PRIORITY]"
                                    ELSE "">>)]
                ELSE <<ReportLine("NoActionItems", <<>>)>>)
            \o <<ReportLine("Rule", <<>>),
                 ReportLine("ShiftStatistics", <<>>),
                 ReportLine("TotalNotes", <<Len(shiftNotesFiltered)>>),
                 ReportLine("Breakdown", <<>>),
                 ReportLine("MaintenanceCount", <<Len(grouped.maintenance)>>),
                 ReportLine("AlertCount", <<Len(grouped.alerts)>>),
                 ReportLine("StatusCount", <<Len(grouped.status)>>),
                 ReportLine("GeneralCount", <<Len(grouped.general)>>),
                 ReportLine("PendingForNextShift", <<Len(unresolved)>>)>>
            \o closing
        quiet ==
            heading
            \o <<ReportLine("Rule", <<>>),
                 ReportLine("QuietShift", <<>>),
                 ReportLine("NoNotesLogged", <<formatShiftName(currentShift)>>),
                 ReportLine("AllUnitsNormal", <<>>),
                 ReportLine("NothingToReport", <<>>),
                 ReportLine("NoPendingFor", <<formatShiftName(nextShift)>>)>>
            \o closing
    IN  IF Len(shiftNotesFiltered) = 0 THEN quiet ELSE standard

\* generateShiftHandoverSummaryTool.execute
GenerateShiftHandoverSummary(context, t) ==
    LET currentShift == OrElse(context.shift, getCurrentShiftSummary(getHours(t)))
        nextShift == getNextShift(currentShift)
        shiftNotesFiltered == notesOfShift(shiftNotes, currentShift)
        grouped == groupNotesByType(shiftNotesFiltered)
        unresolved == getUnresolvedNotesSummary(shiftNotesFiltered)
    IN  /\ t >= now
        /\ now' = t
        /\ lastNoteCall' = <<[tool |-> "generateShiftHandoverSummary",
                              context |-> context, hour |-> getHours(t)]>>
        /\ noteResult' = <<[fromShift |-> formatShiftName(currentShift),
                            toShift |-> formatShiftName(nextShift),
                            totalNotes |-> Len(shiftNotesFiltered),
                            maintenanceCount |-> Len(grouped.maintenance),
                            alertCount |-> Len(grouped.alerts),
                            statusCount |-> Len(grouped.status),
                            unresolvedCount |-> Len(unresolved),
                            summary |->
                                HandoverSummaryText(shiftNotesFiltered, currentShift,
                                                    nextShift, t)]>>
        /\ shiftNotes' = storeAfterSort(shiftNotes)
        /\ past' = Reporting(past, shiftNotes, t)
        /\ UNCHANGED <<equipmentReadings, equipmentCustomRanges, lastCall, result,
                       suppliedBounds>>

\* Time passes: the clock moves on by d ticks
PassTime(d) ==
    /\ d > 0
    /\ now' = now + d
    /\ UNCHANGED <<equipmentReadings, equipmentCustomRanges, lastCall, result,
                   suppliedBounds, shiftNotes, lastNoteCall, noteResult, past>>

----------------------------------------------------------------------------
(* Bounds and input sets.                                                  *)

MaxReadings == 2
MaxRecordCalls == 3
MaxTrendReadings == 7
MaxTallyReadings == 11
MaxAbnormal == 4
MaxDeviationReadings == 2
MaxClassifyNotes == 1
MaxHours == 25
MaxShiftRecords == 1
MaxReportNotes == 2
MaxNarrowReadings == 2
MaxStoreRecords == 3
MaxQueryRecords == 2
MaxQueryHours == 3
MaxDayNotes == 1
MaxDayShifts == 4

\* Spec: one pump's pressure, values on and next to every edge of the bands
\* in play, with and without an explicit normal band; configuration code may
\* set the override directly.
StatusValues == {29, 30, 50, 150, 180, 181}
StatusBounds == {<<Undefined, Undefined>>, <<Some(20), Some(181)>>}
AdminRanges == {Range(100, 120, 90, 130, "bar"), Range(40, 40, 40, 40, "bar")}

RecordStatusReading ==
    /\ Len(equipmentReadings) < MaxReadings
    /\ \E value \in StatusValues, b \in StatusBounds, t \in {now, now + 1} :
          RecordEquipmentReading(
              Context("P-101", "pump", "pressure", value, Undefined, b[1], b[2]), t)

ConfigureRange ==
    \E ranges \in AdminRanges : SetEquipmentRange("P-101", "pressure", ranges)

Next == RecordStatusReading \/ ConfigureRange

Spec == Init /\ [][Next]_vars

\* SpecRecord: recordEquipmentReading calls only, for one equipment id named
\* with either type, a populated and an unpopulated parameter, and every way
\* of supplying or omitting the normal bounds.
RecordTypes == {"pump", "valve"}
RecordParameters == {"pressure", "flow_rate"}
RecordBounds ==
    {<<Undefined, Undefined>>, <<Undefined, Some(200)>>, <<Some(100), Undefined>>,
     <<Some(100), Some(140)>>, <<Some(29), Some(200)>>, <<Some(170), Some(120)>>}
RecordValues == {160}

RecordCall ==
    /\ Len(equipmentReadings) < MaxRecordCalls
    /\ \E type \in RecordTypes, parameter \in RecordParameters,
          value \in RecordValues, b \in RecordBounds :
          RecordEquipmentReading(
              Context("P-101", type, parameter, value, Undefined, b[1], b[2]),
              now + 1)

SpecRecord == Init /\ [][RecordCall]_vars

\* SpecTrend: one series whose window averages can differ by exactly 5%, one
\* call per millisecond.  Over these values the IEEE double arithmetic of the
\* source and the exact arithmetic of Trend classify every window alike.
TrendValues == {19, 20, 21}

RecordTrendReading ==
    /\ Len(equipmentReadings) < MaxTrendReadings
    /\ \E value \in TrendValues :
          RecordEquipmentReading(
              Context("P-101", "pump", "pressure", value, Undefined, Undefined, Undefined),
              now + 1)

SpecTrend == Init /\ [][RecordTrendReading]_vars

\* SpecNarrowBand: normal bands whose bounds are neighbouring doubles, and
\* values on and between them.  The critical bounds are the defaults 30 and
\* 180 of pump pressure.
NarrowBounds ==
    {<<100, Near(100, 1)>>, <<100, Near(100, 3)>>, <<Near(100, 1), Near(100, 2)>>}
NarrowValues == {100, Near(100, 1), Near(100, 2), Near(100, 3)}

RecordNarrowBandReading ==
    /\ Len(equipmentReadings) < MaxNarrowReadings
    /\ \E value \in NarrowValues, bounds \in NarrowBounds :
          RecordEquipmentReading(
              Context("P-101", "pump", "pressure", value, Undefined,
                      Some(bounds[1]), Some(bounds[2])),
              now + 1)

SpecNarrowBand == Init /\ [][RecordNarrowBandReading]_vars

\* SpecTally: one series longer than the history window, a normal, a warning
\* and a critical value, one call per millisecond, at most MaxAbnormal of the
\* stored readings outside the normal band.  Over these values too the double
\* arithmetic of the source and the exact arithmetic of Trend agree.
TallyValues == {100, 170, 200}

Abnormal(readings) ==
    Cardinality({i \in 1..Len(readings) : readings[i].status # "normal"})

RecordTallyReading ==
    /\ Len(equipmentReadings) < MaxTallyReadings
    /\ \E value \in TallyValues :
          RecordEquipmentReading(
              Context("P-101", "pump", "pressure", value, Undefined, Undefined, Undefined),
              now + 1)
    /\ Abnormal(equipmentReadings') <= MaxAbnormal

SpecTally == Init /\ [][RecordTallyReading]_vars

\* SpecDeviation: one series recorded with explicit, well-ordered normal
\* bands of even, odd and prime width, and values at each bound, at the
\* midpoint and mirrored about it, inside and outside the band.  Over these
\* inputs the double arithmetic of the source and RoundRatio give the same
\* tenths.
DeviationBounds == {<<100, 140>>, <<100, 125>>, <<0, 7>>}
DeviationValues == {0, 3, 4, 7, 90, 100, 110, 115, 120, 125, 130, 140, 150}

RecordDeviationReading ==
    /\ Len(equipmentReadings) < MaxDeviationReadings
    /\ \E value \in DeviationValues, b \in DeviationBounds :
          RecordEquipmentReading(
              Context("P-101", "pump", "pressure", value, Undefined,
                      Some(b[1]), Some(b[2])),
              now + 1)

SpecDeviation == Init /\ [][RecordDeviationReading]_vars

\* SpecClassify: logShiftNote calls only, one per tick, over texts that carry
\* every combination of keyword classes and of unit patterns, with every type
\* override and with a unit override that is absent, a number or empty.
ClassifyNotes ==
    {"Unit 5 pump maintenance",
     "no unit mentioned",
     "EMERGENCY: urgent repair of reactor 2",
     "Pump 3 repair, then unit 12 inspection",
     "Urgent repair of tower 4",
     "Pressure stable after cleaning",
     "U7 temperature normal",
     "Operator needs attention",
     "Immediate fix",
     "Alert cleared",
     "Valve failure"}
ClassifyUnits == {Undefined, Some("7"), Some("")}
ClassifyTypes == {Undefined} \cup {Some(type) : type \in NoteType}
RandomSuffix == "k3x9q8w2z"

LogClassifiedNote ==
    /\ Len(shiftNotes) < MaxClassifyNotes
    /\ \E note \in ClassifyNotes, unit \in ClassifyUnits, type \in ClassifyTypes :
          LogShiftNote(NoteContext(note, unit, type), now + 1, now + 1, RandomSuffix)

SpecClassify == Init /\ [][LogClassifiedNote]_vars

\* SpecShift: the process is observed from any tick of a day and an hour on;
\* each of the five tools that read the Shift Clock is called, the three
\* reports with every choice of shift, until the stores hold MaxShiftRecords
\* records.  A call that stores a record may see the clock tick between its
\* reads.
ClockStarts == 0..(MaxHours * TicksPerHour - 1)
ShiftChoices == {Undefined} \cup {Some(shift) : shift \in ShiftType}

InitAnyTime ==
    /\ now \in ClockStarts
    /\ equipmentReadings = <<>>
    /\ equipmentCustomRanges = <<>>
    /\ lastCall = <<>>
    /\ result = <<>>
    /\ suppliedBounds = <<>>
    /\ shiftNotes = <<>>
    /\ lastNoteCall = <<>>
    /\ noteResult = <<>>
    /\ past = NoHistory

LogNoteOnShift ==
    /\ Len(shiftNotes) + Len(equipmentReadings) < MaxShiftRecords
    /\ \E tStamp \in {now, now + 1} :
          LogShiftNote(NoteContext("Unit 5 pump maintenance", Undefined, Undefined),
                       now, tStamp, RandomSuffix)

RecordReadingOnShift ==
    /\ Len(shiftNotes) + Len(equipmentReadings) < MaxShiftRecords
    /\ \E t \in {now, now + 1} :
          RecordEquipmentReading(
              Context("P-101", "pump", "pressure", 160, Undefined, Undefined, Undefined), t)

ReportOnShift == \E shift \in ShiftChoices : GetPreviousShiftReport(ShiftContext(shift), now)

SummaryOnShift ==
    \E shift \in ShiftChoices : GenerateShiftHandoverSummary(ShiftContext(shift), now)

QueryOnShift == QueryShiftStatus(QueryContext(Undefined, Undefined, Undefined), now)

NextShift ==
    \/ LogNoteOnShift
    \/ RecordReadingOnShift
    \/ ReportOnShift
    \/ SummaryOnShift
    \/ QueryOnShift

SpecShift == InitAnyTime /\ [][NextShift]_vars

\* SpecReport: from midnight on, notes are logged and the two handover reports
\* are asked for, for every choice of shift, while the clock moves on a whole
\* shift at a time, so that the store comes to hold notes of different shifts.
\* The texts give a maintenance note of medium priority, a general note of
\* critical priority and a status note of low priority.
ReportNotes == {"Unit 5 pump maintenance", "Valve failure", "U7 temperature normal"}
ShiftLength == 8 * TicksPerHour

LogNoteForReport ==
    /\ Len(shiftNotes) < MaxReportNotes
    /\ \E note \in ReportNotes :
          LogShiftNote(NoteContext(note, Undefined, Undefined), now, now, RandomSuffix)

PreviousShiftReport ==
    \E shift \in ShiftChoices : GetPreviousShiftReport(ShiftContext(shift), now)

HandoverSummary ==
    \E shift \in ShiftChoices : GenerateShiftHandoverSummary(ShiftContext(shift), now)

NextShiftBegins ==
    /\ now + ShiftLength < MaxHours * TicksPerHour
    /\ PassTime(ShiftLength)

NextReport ==
    \/ LogNoteForReport
    \/ PreviousShiftReport
    \/ HandoverSummary
    \/ NextShiftBegins

SpecReport == Init /\ [][NextReport]_vars

\* SpecQuery: queries with two filters around the start of the day shift,
\* in a process started at 05:00, with the other tools called and hours
\* passing between them.  The one note is logged with the unit left to the
\* extractor or given as 'Unit 5'.
QueryStart == 5 * TicksPerHour
QueryUnits == {Undefined, Some("Unit 5")}
QueryContexts ==
    {QueryContext(Some("5"), Undefined, Some(TRUE)),
     QueryContext(Some("Unit 5"), Undefined, Some(TRUE))}

InitBeforeDayShift ==
    /\ now = QueryStart
    /\ equipmentReadings = <<>>
    /\ equipmentCustomRanges = <<>>
    /\ lastCall = <<>>
    /\ result = <<>>
    /\ suppliedBounds = <<>>
    /\ shiftNotes = <<>>
    /\ lastNoteCall = <<>>
    /\ noteResult = <<>>
    /\ past = NoHistory

LogNoteForQuery ==
    /\ Len(shiftNotes) + Len(equipmentReadings) < MaxQueryRecords
    /\ \E unit \in QueryUnits :
          LogShiftNote(NoteContext("Unit 5 pump maintenance", unit, Undefined),
                       now, now, RandomSuffix)

QueryStatus == \E context \in QueryContexts : QueryShiftStatus(context, now)

RecordReadingBetween ==
    /\ Len(shiftNotes) + Len(equipmentReadings) < MaxQueryRecords
    /\ RecordEquipmentReading(
           Context("P-101", "pump", "pressure", 160, Undefined, Undefined, Undefined), now)

PreviousReportBetween == GetPreviousShiftReport(ShiftContext(Undefined), now)

SummaryBetween == GenerateShiftHandoverSummary(ShiftContext(Undefined), now)

AnHourPasses ==
    /\ now + TicksPerHour < QueryStart + MaxQueryHours * TicksPerHour
    /\ PassTime(TicksPerHour)

NextQuery ==
    \/ LogNoteForQuery
    \/ QueryStatus
    \/ RecordReadingBetween
    \/ PreviousReportBetween
    \/ SummaryBetween
    \/ AnHourPasses

SpecQuery == InitBeforeDayShift /\ [][NextQuery]_vars

\* SpecDays: notes and previous-shift reports over more than a day, the
\* clock moving a shift at a time from a midnight.
LogNoteOnDay ==
    /\ Len(shiftNotes) < MaxDayNotes
    /\ \E note \in ReportNotes :
          LogShiftNote(NoteContext(note, Undefined, Undefined), now, now, RandomSuffix)

PreviousReportOnDay == GetPreviousShiftReport(ShiftContext(Undefined), now)

ShiftPasses ==
    /\ now + ShiftLength <= MaxDayShifts * ShiftLength
    /\ PassTime(ShiftLength)

NextDays ==
    \/ LogNoteOnDay
    \/ PreviousReportOnDay
    \/ ShiftPasses

SpecDays == Init /\ [][NextDays]_vars

\* SpecStores: requests of all five tools in any order, one millisecond
\* apart.  No handler awaits, so each request runs to completion before the
\* next one starts, and requests issued together run in some order.
StoreNotes == {"Unit 5 pump maintenance", "Valve failure"}
StoreValues == {160}
StoreQueries == {QueryContext(Undefined, Undefined, Some(TRUE))}
StoreShifts == {Some("night")}

LogNoteToStore ==
    /\ Len(shiftNotes) + Len(equipmentReadings) < MaxStoreRecords
    /\ \E note \in StoreNotes :
          LogShiftNote(NoteContext(note, Undefined, Undefined), now + 1, now + 1,
                       RandomSuffix)

RecordReadingToStore ==
    /\ Len(shiftNotes) + Len(equipmentReadings) < MaxStoreRecords
    /\ \E value \in StoreValues :
          RecordEquipmentReading(
              Context("P-101", "pump", "pressure", value, Undefined, Some(50), Some(150)),
              now + 1)

QueryOfStore == \E context \in StoreQueries : QueryShiftStatus(context, now)

PreviousReportOfStore ==
    \E shift \in StoreShifts : GetPreviousShiftReport(ShiftContext(shift), now)

SummaryOfStore == GenerateShiftHandoverSummary(ShiftContext(Undefined), now)

NextStores ==
    \/ LogNoteToStore
    \/ RecordReadingToStore
    \/ QueryOfStore
    \/ PreviousReportOfStore
    \/ SummaryOfStore

SpecStores == Init /\ [][NextStores]_vars

----------------------------------------------------------------------------
(* The claims.                                                             *)

Readings == {equipmentReadings[i] : i \in 1..Len(equipmentReadings)}

Called == lastCall # <<>>

\* The status the Reading Evaluator is specified to give
BandStatus(value, normalMin, normalMax, criticalMin, criticalMax) ==
    CASE value < criticalMin \/ value > criticalMax -> "critical"
      [] /\ ~(value < criticalMin \/ value > criticalMax)
         /\ (value < normalMin \/ value > normalMax) -> "warning"
      [] OTHER -> "normal"

\* The two-tier lookup with fallback the Range Registry is specified to do
HasDefault(equipmentType, parameter) ==
    \E k \in DOMAIN defaultRanges : k = equipmentType \o "-" \o parameter

ResolvedRange(custom, equipmentId, equipmentType, parameter) ==
    IF (equipmentId \o "-" \o parameter) \in DOMAIN custom
    THEN custom[equipmentId \o "-" \o parameter]
    ELSE IF HasDefault(equipmentType, parameter)
         THEN defaultRanges[equipmentType \o "-" \o parameter]
         ELSE [min |-> 0, max |-> 100, criticalMin |-> 0, criticalMax |-> 150,
               uom |-> "units"]

WellFormed(range) ==
    /\ range.criticalMin <= range.min
    /\ range.min <= range.max
    /\ range.max <= range.criticalMax

\* A step of recordEquipmentReading: the store grows by the new reading
RecordStep == Len(equipmentReadings') = Len(equipmentReadings) + 1

\* The banded status with critical precedence, read off each reading's own
\* snapshot.  It holds in every reachable state of Spec.
StatusFollowsBands ==
    \A r \in Readings :
        /\ r.status = "critical" <=>
              (r.value < r.criticalMin \/ r.value > r.criticalMax)
        /\ r.status = "warning" <=>
              /\ ~(r.value < r.criticalMin \/ r.value > r.criticalMax)
              /\ (r.value < r.normalMin \/ r.value > r.normalMax)
        /\ r.status = "normal" <=>
              /\ r.criticalMin <= r.value /\ r.value <= r.criticalMax
              /\ r.normalMin <= r.value /\ r.value <= r.normalMax

\* C1: every stored reading's status follows the bands of its own snapshot
\* with critical precedence; in particular a value equal to normalMax or
\* normalMin is normal, a value equal to criticalMax is not critical, and a
\* value outside both bands is critical.
C1_StatusFromSnapshot ==
    /\ StatusFollowsBands
    /\ \A r \in Readings :
          /\ (r.value = r.normalMax \/ r.value = r.normalMin) => r.status = "normal"
          /\ r.value = r.criticalMax => r.status # "critical"
          /\ (r.value > r.normalMax /\ r.value > r.criticalMax) => r.status = "critical"
          /\ (r.value < r.normalMin /\ r.value < r.criticalMin) => r.status = "critical"

\* C2: every range of the registry (type defaults, fallback, overrides) has
\* criticalMin <= min <= max <= criticalMax.
C2_RangesWellFormed ==
    /\ \A k \in DOMAIN defaultRanges : WellFormed(defaultRanges[k])
    /\ WellFormed(fallbackRange)
    /\ \A k \in DOMAIN equipmentCustomRanges : WellFormed(equipmentCustomRanges[k])

\* C3: a call that omits both normal bounds, made after a call for the same
\* equipment and parameter supplied both, snapshots and evaluates the reading
\* against the bounds supplied last.
C3_OverridePersists ==
    Called =>
        LET c == lastCall[1]
            key == c.equipmentId \o "-" \o c.parameter
            r == Last(equipmentReadings)
        IN  (c.normalMin = Undefined /\ c.normalMax = Undefined
                /\ key \in DOMAIN suppliedBounds) =>
                /\ r.normalMin = suppliedBounds[key][1]
                /\ r.normalMax = suppliedBounds[key][2]
                /\ r.status = BandStatus(r.value, suppliedBounds[key][1],
                                  suppliedBounds[key][2], r.criticalMin, r.criticalMax)
                /\ result[1].status = r.status

\* Three calls for one key: both bounds, other bounds, none; the third reading
\* carries the second call's bounds, which are not the type default's.
C3_Witness ==
    /\ Len(equipmentReadings) = 3
    /\ lastCall[1].normalMin = Undefined /\ lastCall[1].normalMax = Undefined
    /\ \A i \in 1..3 : equipmentReadings[i].parameter = "pressure"
    /\ equipmentReadings[1].normalMin # equipmentReadings[2].normalMin
    /\ equipmentReadings[3].normalMin = equipmentReadings[2].normalMin
    /\ equipmentReadings[3].normalMax = equipmentReadings[2].normalMax
    /\ "P-101-pressure" \in DOMAIN suppliedBounds
    /\ suppliedBounds["P-101-pressure"] =
          <<equipmentReadings[3].normalMin, equipmentReadings[3].normalMax>>
    /\ equipmentReadings[3].normalMin #
          getDefaultRange(equipmentReadings[3].equipmentType, "pressure").min
    /\ equipmentReadings[3].equipmentType = "pump"

\* C4: the range a call resolves is the override of (equipmentId, parameter) if
\* there is one, whatever the type; else the table entry of (equipmentType,
\* parameter) if there is one; else the band 0-100 / 0-150 "units".  The call
\* succeeds in each case.
C4_TwoTierLookup ==
    [][RecordStep =>
        LET c == lastCall'[1]
            r == Last(equipmentReadings')
            expected == ResolvedRange(equipmentCustomRanges, c.equipmentId,
                                      c.equipmentType, c.parameter)
        IN  /\ r.criticalMin = expected.criticalMin
            /\ r.criticalMax = expected.criticalMax
            /\ c.uom = Undefined => r.uom = expected.uom
            /\ c.normalMin = Undefined => r.normalMin = expected.min
            /\ c.normalMax = Undefined => r.normalMax = expected.max
            /\ result'[1].success]_vars

\* One reading from each tier: an override used under a type whose own lookup
\* would give the fallback, the fallback itself, and a populated type default.
C4_Witness ==
    /\ \E r \in Readings :
          /\ r.equipmentType = "valve" /\ r.parameter = "pressure"
          /\ r.normalMin = 100 /\ r.normalMax = 140
          /\ r.criticalMin = 30 /\ r.criticalMax = 180 /\ r.uom = "PSI"
    /\ \E r \in Readings :
          /\ r.parameter = "flow_rate"
          /\ r.normalMin = 0 /\ r.normalMax = 100
          /\ r.criticalMin = 0 /\ r.criticalMax = 150 /\ r.uom = "units"
    /\ \E r \in Readings :
          /\ r.equipmentType = "pump" /\ r.parameter = "pressure"
          /\ r.criticalMin = 30 /\ r.criticalMax = 180

\* C5: a pump flow_rate reading with no explicit bounds and no override is
\* taken against the pump flow default, 100-500 / 50-600 GPM.
C5_PumpFlowDefault ==
    Called =>
        LET c == lastCall[1]
            r == Last(equipmentReadings)
        IN  (/\ c.equipmentType = "pump" /\ c.parameter = "flow_rate"
             /\ c.normalMin = Undefined /\ c.normalMax = Undefined
             /\ (c.equipmentId \o "-" \o c.parameter) \notin DOMAIN equipmentCustomRanges) =>
                /\ r.normalMin = 100 /\ r.normalMax = 500
                /\ r.criticalMin = 50 /\ r.criticalMax = 600
                /\ r.uom = "GPM"

\* C6: a stored reading never changes: every step leaves each reading already in
\* the store as it was, at its place.
C6_SnapshotsImmutable ==
    [][\A i \in 1..Len(equipmentReadings) :
          /\ i <= Len(equipmentReadings')
          /\ equipmentReadings'[i] = equipmentReadings[i]]_vars

\* A stored reading whose registry entry has since been given other bounds,
\* by a later reading's explicit bounds or by setEquipmentRange.
C6_Witness ==
    \E i \in 1..Len(equipmentReadings) :
        LET r == equipmentReadings[i]
            key == r.equipmentId \o "-" \o r.parameter
        IN  /\ key \in DOMAIN equipmentCustomRanges
            /\ equipmentCustomRanges[key].min # r.normalMin
            /\ equipmentCustomRanges[key].criticalMax # r.criticalMax
            /\ i < Len(equipmentReadings)
            /\ Last(equipmentReadings).normalMin = equipmentCustomRanges[key].min

\* C7: an override persisted by a call carries the critical bounds of the range
\* resolved before the call, and a call never changes the critical bounds of
\* an override that exists.
C7_CriticalInherited ==
    [][RecordStep =>
        LET c == lastCall'[1]
            key == c.equipmentId \o "-" \o c.parameter
            before == ResolvedRange(equipmentCustomRanges, c.equipmentId,
                                    c.equipmentType, c.parameter)
        IN  /\ (c.normalMin # Undefined /\ c.normalMax # Undefined) =>
                /\ key \in DOMAIN equipmentCustomRanges'
                /\ equipmentCustomRanges'[key].criticalMin = before.criticalMin
                /\ equipmentCustomRanges'[key].criticalMax = before.criticalMax
            /\ \A k \in DOMAIN equipmentCustomRanges :
                /\ k \in DOMAIN equipmentCustomRanges'
                /\ equipmentCustomRanges'[k].criticalMin =
                      equipmentCustomRanges[k].criticalMin
                /\ equipmentCustomRanges'[k].criticalMax =
                      equipmentCustomRanges[k].criticalMax]_vars

\* An override created under type pump and written again by a call that names
\* type valve: it still carries the pump's critical band, not 0-150.
C7_Witness ==
    /\ Called
    /\ lastCall[1].equipmentType = "valve" /\ lastCall[1].parameter = "pressure"
    /\ lastCall[1].normalMin # Undefined /\ lastCall[1].normalMax # Undefined
    /\ "P-101-pressure" \in DOMAIN equipmentCustomRanges
    /\ equipmentCustomRanges["P-101-pressure"].min = lastCall[1].normalMin[1]
    /\ equipmentCustomRanges["P-101-pressure"].criticalMin = 30
    /\ equipmentCustomRanges["P-101-pressure"].criticalMax = 180
    /\ equipmentReadings[1].equipmentType = "pump"
    /\ equipmentReadings[1].normalMin # lastCall[1].normalMin[1]

\* The lines of the latest call's trendAnalysis, and what they say
Analysis == result[1].trendAnalysis

HasLine(kind) == \E i \in 1..Len(Analysis) : Analysis[i].kind = kind

Classifications ==
    {i \in 1..Len(Analysis) :
        Analysis[i].kind \in {"TrendStable", "TrendIncreasing", "TrendDecreasing"}}

\* The stored readings of the latest call's equipment and parameter
SeriesIndices ==
    {i \in 1..Len(equipmentReadings) :
        /\ equipmentReadings[i].equipmentId = lastCall[1].equipmentId
        /\ equipmentReadings[i].parameter = lastCall[1].parameter}

\* Those of them with fewer than ten newer readings in the series
TenMostRecent ==
    {i \in SeriesIndices :
        Cardinality({j \in SeriesIndices :
            equipmentReadings[j].timestamp > equipmentReadings[i].timestamp}) < 10}

Tally(status) ==
    Cardinality({i \in TenMostRecent : equipmentReadings[i].status = status})

\* C8: a trend of exactly +5% or exactly -5% is reported as stable, with no
\* increasing or decreasing line and no monitoring line.
C8_FivePercentIsStable ==
    Called =>
        LET history == History(equipmentReadings, lastCall[1].equipmentId,
                               lastCall[1].parameter)
            trend == Trend(history)
        IN  (/\ Len(history) >= 3
             /\ trend.kind = "finite"
             /\ (trend.num = 5 * trend.den \/ trend.num = -(5 * trend.den))) =>
                /\ HasLine("TrendStable")
                /\ ~HasLine("TrendIncreasing") /\ ~HasLine("TrendDecreasing")
                /\ ~HasLine("MonitorUpward") /\ ~HasLine("MonitorDownward")

\* C9: with fewer than 3 stored readings of the call's equipment and parameter,
\* the new one counted, trendAnalysis is the insufficient-data outcome with no
\* classification; with 3 or more it holds exactly one classification; the call
\* succeeds either way.
C9_TrendGatedOnHistory ==
    Called =>
        /\ result[1].success
        /\ Cardinality(SeriesIndices) < 3 =>
              /\ Analysis = <<[kind |-> "Insufficient", n |-> 0]>>
              /\ Classifications = {}
        /\ Cardinality(SeriesIndices) >= 3 =>
              /\ Cardinality(Classifications) = 1
              /\ ~HasLine("Insufficient")

\* The third reading of a series: the first call to get a classification.
C9_Witness ==
    /\ Called
    /\ Cardinality(SeriesIndices) = 3
    /\ Cardinality(Classifications) = 1

\* C10: with at least 3 readings in the series, the analysis recommends
\* immediate inspection iff a critical reading is among the ten most recent,
\* else preventive maintenance iff more than 2 warnings are among them, else
\* nothing; the counts it prints are those of the ten most recent.
C10_IncidentTally ==
    (Called /\ Cardinality(SeriesIndices) >= 3) =>
        /\ HasLine("RecommendInspection") <=> Tally("critical") > 0
        /\ HasLine("RecommendMaintenance") <=>
              (Tally("critical") = 0 /\ Tally("warning") > 2)
        /\ \A i \in 1..Len(Analysis) :
              /\ Analysis[i].kind = "CriticalCount" => Analysis[i].n = Tally("critical")
              /\ Analysis[i].kind = "WarningCount" => Analysis[i].n = Tally("warning")
        /\ HasLine("CriticalCount") <=> HasLine("RecommendInspection")
        /\ HasLine("WarningCount") <=> HasLine("RecommendMaintenance")

\* Eleven readings, the oldest critical and out of the window, exactly two
\* warnings inside it, one of them beyond the six the averages use: no
\* recommendation.
C10_Witness ==
    /\ Called
    /\ Len(equipmentReadings) = 11
    /\ equipmentReadings[1].status = "critical"
    /\ Tally("critical") = 0
    /\ Tally("warning") = 2
    /\ equipmentReadings[3].status = "warning"
    /\ ~HasLine("RecommendInspection")
    /\ ~HasLine("RecommendMaintenance")

\* C11: the deviation is symmetric about the midpoint of a well-ordered normal
\* band: two readings taken against the same band whose values mirror each
\* other about the midpoint have the same deviation, a value on either bound
\* has deviation 50.0, and a value on the midpoint has deviation 0.
C11_DeviationSymmetric ==
    \A r1 \in Readings, r2 \in Readings :
        r1.normalMin < r1.normalMax =>
            /\ (/\ r2.normalMin = r1.normalMin /\ r2.normalMax = r1.normalMax
                /\ r1.value + r2.value = r1.normalMin + r1.normalMax) =>
                    r1.deviation = r2.deviation
            /\ r1.value \in {r1.normalMin, r1.normalMax} => r1.deviation = Num(500)
            /\ 2 * r1.value = r1.normalMin + r1.normalMax => r1.deviation = Num(0)

\* Two stored readings of one band, one on each bound, and both at 50.0.
C11_Witness ==
    \E i, j \in 1..Len(equipmentReadings) :
        LET r1 == equipmentReadings[i]
            r2 == equipmentReadings[j]
        IN  /\ r1.normalMin = r2.normalMin /\ r1.normalMax = r2.normalMax
            /\ r1.normalMin < r1.normalMax
            /\ r1.value = r1.normalMin /\ r2.value = r2.normalMax
            /\ r1.deviation = Num(500) /\ r2.deviation = Num(500)

\* The latest shift-note call was a logShiftNote call; the note it stored and
\* the input it was given
Logged == lastNoteCall # <<>> /\ lastNoteCall[1].tool = "logShiftNote"
LoggedNote == Last(shiftNotes)
LoggedContext == lastNoteCall[1].context

\* The text contains the word, whatever the case of its letters
Mentions(text, word) ==
    \E i \in 1..(Len(text) - Len(word) + 1) :
        toLowerCase(SubSeq(text, i, i + Len(word) - 1)) = word

MentionsAny(text, words) == \E word \in words : Mentions(text, word)

\* C15: every stored note whose text contains 'emergency', in any case, has
\* priority critical, and the call that logged it reports 'Critical', whatever
\* else the text contains and whatever unit or type the caller passed.
C15_EmergencyIsCritical ==
    /\ \A i \in 1..Len(shiftNotes) :
          Mentions(shiftNotes[i].note, "emergency") => shiftNotes[i].priority = "critical"
    /\ (Logged /\ Mentions(LoggedContext.note, "emergency")) =>
          noteResult[1].priority = "Critical"

\* An upper-case EMERGENCY next to an urgent and a maintenance keyword, logged
\* with an explicit unit and the explicit type status, stored as critical.
C15_Witness ==
    /\ Logged
    /\ LoggedContext = NoteContext("EMERGENCY: urgent repair of reactor 2",
                                   Some("7"), Some("status"))
    /\ LoggedNote.type = "status"
    /\ LoggedNote.priority = "critical"

\* The category the precedence alert > maintenance > status > general gives
PrecedenceCategory(text) ==
    IF MentionsAny(text, {"alert", "warning", "spike", "urgent", "critical", "emergency"})
    THEN "alert"
    ELSE IF MentionsAny(text, {"maintenance", "repair", "inspection", "cleaning",
                               "service", "fix"})
    THEN "maintenance"
    ELSE IF MentionsAny(text, {"pressure", "temperature", "psi", "stable", "normal",
                               "operating"})
    THEN "status"
    ELSE "general"

\* C16, as stated: every logged note has the type the category precedence
\* alert > maintenance > status > general gives its text.
C16_CategoryPrecedence ==
    Logged =>
        /\ LoggedNote.type = PrecedenceCategory(LoggedNote.note)
        /\ noteResult[1].type = Capitalize(PrecedenceCategory(LoggedNote.note))

\* C16, amended: a note logged without an explicit type has the type the
\* category precedence gives its text; a note logged with an explicit type
\* has that type.
C16_CategoryPrecedenceUnlessOverridden ==
    Logged =>
        LET type == IF LoggedContext.type = Undefined
                    THEN PrecedenceCategory(LoggedNote.note)
                    ELSE LoggedContext.type[1]
        IN  /\ LoggedNote.type = type
            /\ noteResult[1].type = Capitalize(type)

\* An alert keyword and a maintenance keyword, no explicit type: alert.
C16_Witness ==
    /\ Logged
    /\ LoggedContext.type = Undefined
    /\ LoggedContext.note = "Urgent repair of tower 4"
    /\ LoggedNote.type = "alert"

\* The priority the ordered rules give a text of a given final type
OrderedPriority(text, type) ==
    IF MentionsAny(text, {"critical", "emergency", "shutdown", "failure"}) THEN "critical"
    ELSE IF MentionsAny(text, {"urgent", "immediate", "alert"}) \/ type = "alert" THEN "high"
    ELSE IF type = "maintenance" \/ Mentions(text, "attention") THEN "medium"
    ELSE "low"

\* C17: the priority of a logged note is the first of critical, high, medium,
\* low whose rule its text and its final type satisfy, the final type being
\* the explicit type when one was passed; every note gets one of the four.
C17_PriorityOrder ==
    Logged =>
        /\ LoggedContext.type # Undefined => LoggedNote.type = LoggedContext.type[1]
        /\ LoggedNote.priority = OrderedPriority(LoggedNote.note, LoggedNote.type)
        /\ LoggedNote.priority \in PriorityLevel
        /\ noteResult[1].priority = Capitalize(LoggedNote.priority)

\* A text with a maintenance keyword and an urgent keyword, typed maintenance
\* by the caller: high, not medium.
C17_Witness ==
    /\ Logged
    /\ LoggedContext.note = "Immediate fix"
    /\ LoggedContext.type = Some("maintenance")
    /\ LoggedNote.priority = "high"

\* The capture of the first pattern of the list that matches the text
FirstPatternUnit(text) ==
    LET matching == {p \in 1..Len(patterns) : match(text, patterns[p]) # Undefined}
    IN  IF matching = {} THEN "General"
        ELSE match(text, patterns[CHOOSE p \in matching : \A q \in matching : p <= q])[1]

\* Without an explicit unit, the stored unit is that of the first pattern of
\* the list that matches, or 'General'.
UnitFollowsPatternOrder ==
    (Logged /\ LoggedContext.unit = Undefined) =>
        LoggedNote.unit = FirstPatternUnit(LoggedNote.note)

\* C18: the unit of a logged note is the explicit unit when the caller passed
\* one; otherwise the capture of the first pattern of the list that matches
\* anywhere in the text, or 'General' when none matches.
C18_UnitExtraction ==
    Logged =>
        /\ LoggedContext.unit # Undefined => LoggedNote.unit = LoggedContext.unit[1]
        /\ LoggedContext.unit = Undefined =>
              LoggedNote.unit = FirstPatternUnit(LoggedNote.note)
        /\ noteResult[1].unit = LoggedNote.unit

\* The hours of each shift: day [6,14), afternoon [14,22), night the rest
ShiftHours ==
    [day |-> 6..13, afternoon |-> 14..21, night |-> (22..23) \cup (0..5)]

ShiftsHolding(hour) == {shift \in ShiftType : hour \in ShiftHours[shift]}

IsShiftOfHour(shift, hour) == ShiftsHolding(hour) = {shift}

\* The shift a formatted shift name names
ShiftNamed(name) == CHOOSE shift \in ShiftType : formatShiftName(shift) = name

NoteTool(tool) == lastNoteCall # <<>> /\ lastNoteCall[1].tool = tool

\* The current shift a previous-shift report prints
ReportedCurrentShift ==
    LET text == noteResult[1].formattedReport
        i == CHOOSE i \in 1..Len(text) : text[i].kind \in {"To", "CurrentShift"}
    IN  ShiftNamed(text[i].data[1])

C13_InverseRotations ==
    /\ NoteTool("generateShiftHandoverSummary") =>
          LET from == ShiftNamed(noteResult[1].fromShift)
              to == ShiftNamed(noteResult[1].toShift)
          IN  /\ <<from, to>> \in {<<"day", "afternoon">>, <<"afternoon", "night">>,
                                   <<"night", "day">>}
              /\ getPreviousShift(to) = from
    /\ (NoteTool("getPreviousShiftReport") /\ lastNoteCall[1].context.shift = Undefined) =>
          getNextShift(ShiftNamed(noteResult[1].shift)) = ReportedCurrentShift

\* A summary of the night shift handing over to the day shift.
C13_Witness ==
    /\ NoteTool("generateShiftHandoverSummary")
    /\ noteResult[1].fromShift = "Night Shift"
    /\ noteResult[1].toShift = "Day Shift"

\* The shift stored and returned is the Shift Clock's for the hour the call read.
ShiftAtCallTime ==
    NoteTool("logShiftNote") =>
        /\ IsShiftOfHour(LoggedNote.shift, lastNoteCall[1].hour)
        /\ noteResult[1].shift = formatShiftName(LoggedNote.shift)

\* C14: a logged note's shift is the Shift Clock's shift for the time of the
\* call, the result names that same shift, and the shift of every stored note
\* holds the hour of the note's own timestamp.
C14_ShiftOfTimestamp ==
    /\ ShiftAtCallTime
    /\ \A i \in 1..Len(shiftNotes) :
          IsShiftOfHour(shiftNotes[i].shift, getHours(shiftNotes[i].timestamp))

\* The shift a report call is about: the shift asked for, else the one the
\* tool derives from the hour it read (the current shift for a summary, the
\* one before it for a previous-shift report)
ClockShiftOf(hour) == CHOOSE shift \in ShiftType : hour \in ShiftHours[shift]

ShiftBefore(shift) ==
    CHOOSE before \in ShiftType :
        <<before, shift>> \in {<<"day", "afternoon">>, <<"afternoon", "night">>,
                               <<"night", "day">>}

TargetShift ==
    IF lastNoteCall[1].context.shift # Undefined THEN lastNoteCall[1].context.shift[1]
    ELSE IF lastNoteCall[1].tool = "generateShiftHandoverSummary"
         THEN ClockShiftOf(lastNoteCall[1].hour)
         ELSE ShiftBefore(ClockShiftOf(lastNoteCall[1].hour))

\* Indices of the stored notes of the target shift
TargetNotes == {i \in 1..Len(shiftNotes) : shiftNotes[i].shift = TargetShift}

LinesOfKind(text, kind) == {i \in 1..Len(text) : text[i].kind = kind}

\* C19: a handover summary is the quiet-shift text, without the statistics
\* block and with every returned count 0, exactly when the store holds no note
\* of the target shift; otherwise it is the standard text with the statistics
\* block.
C19_QuietShift ==
    NoteTool("generateShiftHandoverSummary") =>
        LET r == noteResult[1]
            quiet == LinesOfKind(r.summary, "QuietShift") # {}
            statistics == LinesOfKind(r.summary, "ShiftStatistics") # {}
        IN  /\ r.fromShift = formatShiftName(TargetShift)
            /\ quiet <=> TargetNotes = {}
            /\ statistics <=> TargetNotes # {}
            /\ quiet =>
                  /\ r.totalNotes = 0 /\ r.maintenanceCount = 0 /\ r.alertCount = 0
                  /\ r.statusCount = 0 /\ r.unresolvedCount = 0
            /\ r.totalNotes = Cardinality(TargetNotes)

\* The store holds a note, of another shift than the summarised one: quiet.
C19_Witness ==
    /\ NoteTool("generateShiftHandoverSummary")
    /\ Len(shiftNotes) > 0
    /\ TargetNotes = {}
    /\ LinesOfKind(noteResult[1].summary, "QuietShift") # {}

\* Indices of the pending notes of the target shift
PendingNotes ==
    {i \in TargetNotes :
        /\ ~shiftNotes[i].resolved
        /\ \/ shiftNotes[i].type \in {"maintenance", "alert"}
           \/ shiftNotes[i].priority \in {"high", "critical"}}

\* The handover summary's pending items are the pending notes.
SummaryPendingItems ==
    NoteTool("generateShiftHandoverSummary") =>
        /\ noteResult[1].unresolvedCount = Cardinality(PendingNotes)
        /\ TargetNotes # {} =>
              Cardinality(LinesOfKind(noteResult[1].summary, "ActionItem"))
                  = Cardinality(PendingNotes)

\* C20: the unresolvedCount a previous-shift report or a handover summary
\* returns, and the number of items in its pending section when it has one,
\* is the number of unresolved notes of the target shift whose type is
\* maintenance or alert or whose priority is high or critical.
C20_PendingItems ==
    /\ SummaryPendingItems
    /\ NoteTool("getPreviousShiftReport") =>
          /\ noteResult[1].unresolvedCount = Cardinality(PendingNotes)
          /\ TargetNotes # {} =>
                Cardinality(LinesOfKind(noteResult[1].formattedReport, "PendingItem"))
                    = Cardinality(PendingNotes)

ReportTools == {"queryShiftStatus", "getPreviousShiftReport", "generateShiftHandoverSummary"}

Reported == lastNoteCall # <<>> /\ lastNoteCall[1].tool \in ReportTools

\* The text the latest report call returned
ReportText ==
    IF lastNoteCall[1].tool = "queryShiftStatus" THEN noteResult[1].formattedSummary
    ELSE IF lastNoteCall[1].tool = "getPreviousShiftReport"
         THEN noteResult[1].formattedReport
         ELSE noteResult[1].summary

\* The standard rendering: the text of a report that found notes
StandardRendering == Reported /\ noteResult[1].totalNotes > 0

SectionHeadings ==
    {"MaintenanceHeading", "AlertsHeading", "StatusHeading", "GeneralHeading"}
NoneLines == {"None", "NoneReported", "NoMaintenance", "NoAlerts", "NoStatus"}
NoteLines == {"UnitNoteTime", "NoteUnitTime", "UnitNoteLogged"}

\* The text, unit and printed time of a note line
LineNote(line) ==
    IF line.kind = "NoteUnitTime"
    THEN [note |-> line.data[1], unit |-> line.data[3], time |-> line.data[4]]
    ELSE [note |-> line.data[2], unit |-> line.data[1], time |-> line.data[4]]

\* The stored notes a note line may stand for
NotesOfLine(line) ==
    {i \in 1..Len(shiftNotes) :
        /\ shiftNotes[i].note = LineNote(line).note
        /\ shiftNotes[i].unit = LineNote(line).unit
        /\ toLocaleTimeString(shiftNotes[i].timestamp) = LineNote(line).time}

\* A section's heading is followed by a 'none' line or by its notes
SectionRendered(text, heading) ==
    \E i \in 1..(Len(text) - 1) :
        /\ text[i].kind = heading
        /\ text[i + 1].kind \in NoneLines \cup NoteLines

\* Two note lines that follow each other stand for notes of which the first
\* is not the older.
ListedMostRecentFirst ==
    StandardRendering =>
        \A i \in 1..(Len(ReportText) - 1) :
            (ReportText[i].kind \in NoteLines /\ ReportText[i + 1].kind \in NoteLines) =>
                \E a \in NotesOfLine(ReportText[i]), b \in NotesOfLine(ReportText[i + 1]) :
                    shiftNotes[a].timestamp >= shiftNotes[b].timestamp

\* The maintenance, alerts and status sections are in every standard rendering.
ThreeSectionsRendered ==
    StandardRendering =>
        \A heading \in SectionHeadings \ {"GeneralHeading"} :
            SectionRendered(ReportText, heading)

\* C21: the standard rendering of every report has each of the four sections
\* maintenance, alerts, status updates and general, a section without notes
\* as an explicit 'none' line, and lists the notes of a section most recent
\* first.
C21_SectionsAlwaysPresent ==
    /\ StandardRendering =>
          \A heading \in SectionHeadings : SectionRendered(ReportText, heading)
    /\ ListedMostRecentFirst

\* The windows of the latest call's series: the 3 newest readings, and the
\* readings at indices 3..5 behind them
SeriesHistory ==
    History(equipmentReadings, lastCall[1].equipmentId, lastCall[1].parameter)
RecentWindow == SubSeq(SeriesHistory, 1, MinOf(3, Len(SeriesHistory)))
OlderWindow == SubSeq(SeriesHistory, 4, MinOf(6, Len(SeriesHistory)))

\* recent average > older average * (100 + percent) / 100, cross-multiplied;
\* false when the older window is empty
RecentAbove(percent) ==
    /\ OlderWindow # <<>>
    /\ 100 * SumValues(RecentWindow) * Len(OlderWindow)
          > (100 + percent) * SumValues(OlderWindow) * Len(RecentWindow)

\* recent average < older average * (100 - percent) / 100
RecentBelow(percent) ==
    /\ OlderWindow # <<>>
    /\ 100 * SumValues(RecentWindow) * Len(OlderWindow)
          < (100 - percent) * SumValues(OlderWindow) * Len(RecentWindow)

\* An 'Increasing' line is a rise of more than 5%.
IncreasingIsRise == (Called /\ HasLine("TrendIncreasing")) => RecentAbove(5)

\* C28: a 'Decreasing' trend is reported only when the recent average is
\* lower than the older average by more than 5% of it, and an 'Increasing'
\* trend only when it is higher by more than 5%, for every history of 3 or
\* more readings, those with an empty or partial older window included.
C28_TrendDirection ==
    Called =>
        /\ HasLine("TrendDecreasing") => RecentBelow(5)
        /\ HasLine("TrendIncreasing") => RecentAbove(5)

\* deviation <= 50, or the NaN of a zero-width band
AtMost50(deviation) ==
    \/ deviation.kind = "NaN"
    \/ deviation.kind = "num" /\ deviation.tenths <= 500

\* C29: the 'NOTICE' recommendation is never returned: every stored reading
\* with status normal has a deviation of at most 50 (or NaN, for a zero-width
\* band), and the recommendation of a normal reading is the 'NORMAL' text.
C29_NoticeNeverReturned ==
    /\ \A i \in 1..Len(equipmentReadings) :
          equipmentReadings[i].status = "normal" =>
              AtMost50(equipmentReadings[i].deviation)
    /\ Called =>
          /\ result[1].recommendation # "NOTICE"
          /\ result[1].status = "normal" => result[1].recommendation = "NORMAL"

\* C30: every stored note of type alert has priority high or critical and
\* every stored note of type maintenance has priority medium, high or
\* critical, with or without an explicit type; none of them has priority low.
C30_SafetyLanguageDominates ==
    \A i \in 1..Len(shiftNotes) :
        /\ shiftNotes[i].type = "alert" =>
              shiftNotes[i].priority \in {"high", "critical"}
        /\ shiftNotes[i].type = "maintenance" =>
              shiftNotes[i].priority \in {"medium", "high", "critical"}
        /\ shiftNotes[i].type \in {"alert", "maintenance"} =>
              shiftNotes[i].priority # "low"

\* A text without any keyword, logged with the explicit type alert, is
\* stored with priority high.
C30_Witness ==
    /\ Logged
    /\ LoggedContext.note = "no unit mentioned"
    /\ LoggedContext.type = Some("alert")
    /\ LoggedNote.type = "alert"
    /\ LoggedNote.priority = "high"

IsPrefix(a, b) == Len(a) <= Len(b) /\ SubSeq(b, 1, Len(a)) = a

\* A step of a report: a request completed that was neither a logShiftNote
\* nor a recordEquipmentReading call (nor a call of setEquipmentRange or the
\* mere passing of time, which change neither lastNoteCall nor noteResult).
ReportStep ==
    /\ past'.logShiftNote = past.logShiftNote
    /\ past'.recordEquipmentReading = past.recordEquipmentReading
    /\ past'.read # <<>>
    /\ <<lastNoteCall', noteResult', past'>> # <<lastNoteCall, noteResult, past>>

\* C23: queryStatus, getPreviousShiftReport and generateHandoverSummary leave
\* the Note Store (length, order, every field of every note), the Reading
\* Store and the Range Registry as they were, also when they sort notes for
\* display.
C23_ReportsReadOnly ==
    [][ReportStep =>
            /\ shiftNotes' = shiftNotes
            /\ equipmentReadings' = equipmentReadings
            /\ equipmentCustomRanges' = equipmentCustomRanges]_vars

\* A report that listed two notes, the older of which is first in the store,
\* with a reading and a range stored as well: the store is still in
\* insertion order.
C23_Witness ==
    /\ Reported
    /\ noteResult[1].totalNotes >= 2
    /\ Len(shiftNotes) >= 2
    /\ shiftNotes[1].timestamp < shiftNotes[2].timestamp
    /\ past.read[1].notes = shiftNotes
    /\ equipmentReadings # <<>>
    /\ "P-101-pressure" \in DOMAIN equipmentCustomRanges

\* C24: the Note Store is append-only and insertion-ordered: the store before
\* a step is a prefix of the store after it, with every field of every note
\* as it was; a logNote call appends exactly one note at the end; and
\* resolved is false for every stored note.
C24_AppendOnly ==
    [][/\ IsPrefix(shiftNotes, shiftNotes')
       /\ Len(shiftNotes') <= Len(shiftNotes) + 1
       /\ past'.logShiftNote # past.logShiftNote =>
             /\ Len(shiftNotes') = Len(shiftNotes) + 1
             /\ Last(shiftNotes').id = noteResult'[1].noteId
       /\ \A i \in 1..Len(shiftNotes') : shiftNotes'[i].resolved = FALSE]_vars

\* The second note logged is behind the first.
C24_Witness ==
    /\ Logged
    /\ past.logShiftNote = 2
    /\ Len(shiftNotes) = 2
    /\ shiftNotes[1].timestamp < shiftNotes[2].timestamp
    /\ shiftNotes[2].id = noteResult[1].noteId

NoteFields == {"id", "timestamp", "shift", "unit", "note", "type", "priority", "resolved"}

\* C27: after n logNote and m recordEquipmentReading calls have completed,
\* in whatever order they ran, the Note Store holds n notes and the Reading
\* Store m readings; what a report read is a prefix of every later Note
\* Store, and every note in it has all its fields.
C27_NoLostUpdates ==
    /\ Len(shiftNotes) = past.logShiftNote
    /\ Len(equipmentReadings) = past.recordEquipmentReading
    /\ past.read # <<>> =>
          /\ IsPrefix(past.read[1].notes, shiftNotes)
          /\ \A i \in 1..Len(past.read[1].notes) :
                DOMAIN past.read[1].notes[i] = NoteFields

\* A report ran between two logNote calls, with a reading recorded as well.
C27_Witness ==
    /\ past.logShiftNote = 2
    /\ past.recordEquipmentReading = 1
    /\ past.read # <<>>
    /\ Len(past.read[1].notes) = 1
    /\ Len(shiftNotes) = 2
    /\ Len(equipmentReadings) = 1

\* The latest query repeated one made since the last logNote call
Repeated == past.repeated # <<>>
Before == past.repeated[1].before
After == past.repeated[1].after

BareFilter == QueryContext(Some("5"), Undefined, Some(TRUE))
UnitFilter == QueryContext(Some("Unit 5"), Undefined, Some(TRUE))

\* The note lines of a query's text
NoteLinesOf(text) == SelectSeq(text, LAMBDA line : line.kind \in NoteLines)

\* The notes the latest query selected are the stored notes whose unit is
\* the digits of the filter ('5' for both forms) or the filter itself.
UnitFilterMatches ==
    (NoteTool("queryShiftStatus") /\ lastNoteCall[1].context \in {BareFilter, UnitFilter}) =>
        LET filter == lastNoteCall[1].context.unit[1]
        IN  noteResult[1].totalNotes =
                Cardinality({i \in 1..Len(shiftNotes) :
                    shiftNotes[i].unit = "5" \/ shiftNotes[i].unit = filter})

\* C25: over the same Note Store, queryStatus with unit filter '5' and with
\* unit filter 'Unit 5' select the same notes, whether the notes were logged
\* with an explicit unit or not; a note is selected iff its unit is the
\* digits of the filter or the filter itself.
C25_UnitFilterForms ==
    /\ (BareFilter \in DOMAIN past.queried /\ UnitFilter \in DOMAIN past.queried) =>
          LET bare == past.queried[BareFilter].result
              unit == past.queried[UnitFilter].result
          IN  /\ bare.totalNotes = unit.totalNotes
              /\ NoteLinesOf(bare.formattedSummary) = NoteLinesOf(unit.formattedSummary)
    /\ UnitFilterMatches

\* The instants at which a shift begins: 06:00, 14:00 and 22:00 of every day
IsShiftBoundary(t) ==
    t % TicksPerHour = 0 /\ (t \div TicksPerHour) % 24 \in {6, 14, 22}

\* The beginning of the shift that holds the instant t
ShiftStartOf(t) ==
    CHOOSE b \in (t - ShiftLength + 1)..t : IsShiftBoundary(b)

\* The notes, among those a report read, logged during the most recent
\* occurrence of the shift before the one the call was made in
LastCompletedShiftNotes ==
    LET read == past.read[1]
        start == ShiftStartOf(read.at)
    IN  {i \in 1..Len(read.notes) :
            /\ read.notes[i].timestamp >= start - ShiftLength
            /\ read.notes[i].timestamp < start}

\* C26: getPreviousShiftReport without a shift argument reports only notes
\* logged during the most recent occurrence of the shift before the current
\* one, never a note of an earlier occurrence of a shift of that name: it
\* counts no more notes than were logged during that occurrence.
C26_LastCompletedShift ==
    (NoteTool("getPreviousShiftReport") /\ lastNoteCall[1].context.shift = Undefined) =>
        noteResult[1].totalNotes <= Cardinality(LastCompletedShiftNotes)

\* Within a day of the note's logging the report counts exactly the notes of
\* the last completed shift.
ReportWithinADay ==
    (/\ NoteTool("getPreviousShiftReport")
     /\ lastNoteCall[1].context.shift = Undefined
     /\ \A i \in 1..Len(past.read[1].notes) :
            past.read[1].at - past.read[1].notes[i].timestamp < 3 * ShiftLength) =>
        noteResult[1].totalNotes = Cardinality(LastCompletedShiftNotes)
====
